---- MODULE Spec2Model ----
(***************************************************************************)
(* Model of src/app.py: the data processing (merge_email_data,             *)
(* clean_dataframe, group_data_with_wildcard), the five-step wizard that   *)
(* runs it, the full-send loop of step 5 and create_smtp_connection.       *)
(*                                                                         *)
(* Strings are sequences of characters; a character is a one-token TLA+    *)
(* string.  The Hangul syllables of the source are written with ASCII      *)
(* tokens, one token per code point:                                       *)
(*     "hap" "gye"                      for the two code points of the     *)
(*                                      default suffix word (app.py:1567)  *)
(*     "(" "bi" "eo" " " "iss" "eum" ")"  for the 7 code points of the     *)
(*                                      localized blank marker (1588)      *)
(* A DataFrame cell is a tagged value: a str, a number or NaN (missing).   *)
(***************************************************************************)
EXTENDS Integers, Sequences, FiniteSets, TLC

VARIABLES df, columns, original_str, df_email, use_separate_email_sheet,
          group_key_col, amount_cols, percent_cols, display_cols,
          use_wildcard, wildcard_suffixes, conflict_resolution,
          calculate_totals, df_work, grouped_data, conflicts, error, phase,
          current_step, df_original, confirm_send, emergency_stop,
          sent_groups, send_results, send_history, accepted, send_run, smtp

vars == <<df, columns, original_str, df_email, use_separate_email_sheet,
          group_key_col, amount_cols, percent_cols, display_cols,
          use_wildcard, wildcard_suffixes, conflict_resolution,
          calculate_totals, df_work, grouped_data, conflicts, error, phase,
          current_step, df_original, confirm_send, emergency_stop,
          sent_groups, send_results, send_history, accepted, send_run, smtp>>

\* the settings of a run, which the run leaves as they are
settings == <<df_email, use_separate_email_sheet, group_key_col, amount_cols,
              percent_cols, display_cols, use_wildcard, wildcard_suffixes,
              conflict_resolution, calculate_totals>>

\* what the full send of step 5 works on
sending == <<confirm_send, emergency_stop, sent_groups, send_results,
             send_history, accepted, send_run>>

(***************************************************************************)
(* Bounds of the model.                                                    *)
(***************************************************************************)
MaxRows == 3

(***************************************************************************)
(* Python str operations.                                                  *)
(***************************************************************************)
\* str.lower() on the characters the model uses
LowerChar(c) ==
    CASE c = "A" -> "a"
      [] c = "B" -> "b"
      [] c = "E" -> "e"
      [] c = "N" -> "n"
      [] c = "O" -> "o"
      [] c = "T" -> "t"
      [] OTHER -> c

Lower(s) == [i \in 1..Len(s) |-> LowerChar(s[i])]

\* ord(c): the Unicode code point, which orders Python strings
CodePoint(c) ==
    CASE c = " " -> 32
      [] c = "(" -> 40
      [] c = ")" -> 41
      [] c = "," -> 44
      [] c = "-" -> 45
      [] c = "0" -> 48
      [] c = "1" -> 49
      [] c = "2" -> 50
      [] c = "3" -> 51
      [] c = "4" -> 52
      [] c = "5" -> 53
      [] c = "6" -> 54
      [] c = "7" -> 55
      [] c = "8" -> 56
      [] c = "9" -> 57
      [] c = "@" -> 64
      [] c = "A" -> 65
      [] c = "B" -> 66
      [] c = "E" -> 69
      [] c = "N" -> 78
      [] c = "O" -> 79
      [] c = "T" -> 84
      [] c = "a" -> 97
      [] c = "b" -> 98
      [] c = "e" -> 101
      [] c = "n" -> 110
      [] c = "o" -> 111
      [] c = "%" -> 37
      [] c = "." -> 46
      [] c = "/" -> 47
      [] c = "t" -> 116
      [] c = "krw" -> 8361
      [] c = "gye" -> 44228
      [] c = "bi" -> 48708
      [] c = "eo" -> 50612
      [] c = "eum" -> 51020
      [] c = "iss" -> 51080
      [] c = "won" -> 50896
      [] c = "hap" -> 54633

IsSpace(c) == c = " "

RECURSIVE LStrip(_)
LStrip(s) ==
    IF s # <<>> /\ IsSpace(Head(s)) THEN LStrip(Tail(s)) ELSE s

RECURSIVE RStrip(_)
RStrip(s) ==
    IF s # <<>> /\ IsSpace(s[Len(s)])
    THEN RStrip(SubSeq(s, 1, Len(s) - 1))
    ELSE s

\* str.strip()
Strip(s) == RStrip(LStrip(s))

\* str.endswith(suffix)
EndsWith(s, suffix) ==
    /\ Len(suffix) <= Len(s)
    /\ SubSeq(s, Len(s) - Len(suffix) + 1, Len(s)) = suffix

\* s[:-len(suffix)]  (s[:-0] is s[:0], the empty string)
DropLast(s, suffix) ==
    IF Len(suffix) = 0 THEN <<>> ELSE SubSeq(s, 1, Len(s) - Len(suffix))

\* Python's < on str: lexicographic by code point
RECURSIVE StrLess(_, _)
StrLess(a, b) ==
    IF b = <<>> THEN FALSE
    ELSE IF a = <<>> THEN TRUE
    ELSE IF CodePoint(Head(a)) # CodePoint(Head(b))
         THEN CodePoint(Head(a)) < CodePoint(Head(b))
         ELSE StrLess(Tail(a), Tail(b))

DigitChar(d) ==
    CASE d = 0 -> "0" [] d = 1 -> "1" [] d = 2 -> "2" [] d = 3 -> "3"
      [] d = 4 -> "4" [] d = 5 -> "5" [] d = 6 -> "6" [] d = 7 -> "7"
      [] d = 8 -> "8" [] d = 9 -> "9"

\* decimal digits of a natural number
RECURSIVE Digits(_)
Digits(n) ==
    IF n < 10 THEN <<DigitChar(n)>>
    ELSE Append(Digits(n \div 10), DigitChar(n % 10))

\* str(n) of an int
IntStr(n) == IF n < 0 THEN <<"-">> \o Digits(-n) ELSE Digits(n)

\* digits with "," before every group of three, as the "," format option
RECURSIVE Thousands(_)
Thousands(n) ==
    IF n < 1000 THEN Digits(n)
    ELSE LET low == n % 1000
             pad == IF low < 10 THEN <<"0", "0">>
                    ELSE IF low < 100 THEN <<"0">> ELSE <<>>
         IN  Thousands(n \div 1000) \o <<",">> \o pad \o Digits(low)

\* str.replace(ch, ''): every occurrence of the character removed
RemoveChar(s, ch) == SelectSeq(s, LAMBDA c : c # ch)

DigitValue(c) ==
    CASE c = "0" -> 0 [] c = "1" -> 1 [] c = "2" -> 2 [] c = "3" -> 3
      [] c = "4" -> 4 [] c = "5" -> 5 [] c = "6" -> 6 [] c = "7" -> 7
      [] c = "8" -> 8 [] c = "9" -> 9

IsDigits(s) ==
    /\ s # <<>>
    /\ \A i \in 1..Len(s) :
          s[i] \in {"0", "1", "2", "3", "4", "5", "6", "7", "8", "9"}

\* the number a run of decimal digits spells
RECURSIVE DigitsValue(_)
DigitsValue(s) ==
    IF s = <<>> THEN 0
    ELSE 10 * DigitsValue(SubSeq(s, 1, Len(s) - 1)) + DigitValue(s[Len(s)])

(***************************************************************************)
(* Cells of a DataFrame.                                                   *)
(***************************************************************************)
Text(s) == [t |-> "str", s |-> s, n |-> 0]
Num(n)  == [t |-> "num", s |-> <<>>, n |-> n]
NaN     == [t |-> "nan", s |-> <<>>, n |-> 0]

\* str(value) of a cell
PyStr(cell) ==
    CASE cell.t = "str" -> cell.s
      [] cell.t = "num" -> IntStr(cell.n)
      [] cell.t = "nan" -> <<"n", "a", "n">>

\* pd.isna(value)
IsNa(cell) == cell.t = "nan"

\* pd.to_numeric(..., errors='coerce') of one str: an optionally signed run
\* of digits is that number, every other text of the model's characters
\* ('', 'nan', 'N/A', '50%', '-') is NaN
ToNumeric(s) ==
    IF IsDigits(s) THEN Num(DigitsValue(s))
    ELSE IF s # <<>> /\ Head(s) = "-" /\ IsDigits(Tail(s))
         THEN Num(0 - DigitsValue(Tail(s)))
         ELSE NaN

(***************************************************************************)
(* Generic helpers for ordered data.                                       *)
(***************************************************************************)
Range(s) == {s[i] : i \in 1..Len(s)}

\* the elements of a set of integers in increasing order
RECURSIVE Ascending(_)
Ascending(S) ==
    IF S = {} THEN <<>>
    ELSE LET m == CHOOSE x \in S : \A y \in S : x <= y
         IN  <<m>> \o Ascending(S \ {m})

\* every sequence that lists each element of S once
RECURSIVE Orderings(_)
Orderings(S) ==
    IF S = {} THEN {<<>>}
    ELSE UNION {{<<x>> \o p : p \in Orderings(S \ {x})} : x \in S}

\* pandas unique(): the distinct values in order of first appearance
RECURSIVE Unique(_)
Unique(s) ==
    IF s = <<>> THEN <<>>
    ELSE LET init == Unique(SubSeq(s, 1, Len(s) - 1))
             last == s[Len(s)]
         IN  IF last \in Range(init) THEN init ELSE Append(init, last)

\* Series.dropna()
DropNa(s) == SelectSeq(s, LAMBDA c : ~IsNa(c))

RECURSIVE SumSeq(_)
SumSeq(s) == IF s = <<>> THEN 0 ELSE Head(s) + SumSeq(Tail(s))

(***************************************************************************)
(* Values of the source.                                                   *)
(***************************************************************************)
\* Python None, as a value of recipient_email / selected
None == [t |-> "None", s |-> <<>>, n |-> 0]

\* ['nan', 'none', '(bi-eo iss-eum)']  (app.py:1588)
BlankKeys ==
    { <<"n", "a", "n">>,
      <<"n", "o", "n", "e">>,
      <<"(", "bi", "eo", " ", "iss", "eum", ")">> }

\* ['nan', 'none', '']  (app.py:1594)
BlankEmails == { <<"n", "a", "n">>, <<"n", "o", "n", "e">>, <<>> }

\* ['nan', 'none', 'nat', '', '0', '0.0', '0.00']  (app.py:1658)
BlankOriginals ==
    { <<"n", "a", "n">>, <<"n", "o", "n", "e">>, <<"n", "a", "t">>, <<>>,
      <<"0">>, <<"0", ".", "0">>, <<"0", ".", "0", "0">> }

\* ['nan', 'none', 'nat', '', '0', '0.0']  (app.py:1672)
BlankValues ==
    { <<"n", "a", "n">>, <<"n", "o", "n", "e">>, <<"n", "a", "t">>, <<>>,
      <<"0">>, <<"0", ".", "0">> }

\* a call's arguments and what the frame carries: use_wildcard,
\* wildcard_suffixes, conflict_resolution, calculate_totals, amount_cols,
\* display_cols, df.columns and df.attrs['original_str']; group_key_col is
\* 'key' and email_col is 'email'
Config(uw, sfx, cr, ct, ac, dc, cols, orig) ==
    [uw |-> uw, sfx |-> sfx, cr |-> cr, ct |-> ct, ac |-> ac, dc |-> dc,
     cols |-> cols, orig |-> orig]

(***************************************************************************)
(* load_sheet, app.py:1501-1522.  A table is a sequence of rows; a row is  *)
(* a function from the column names to cells; the index label of a row is  *)
(* its position.                                                           *)
(***************************************************************************)
\* one cell of pd.read_excel(..., dtype=str): the text of the cell, NaN for
\* an empty one
StrCell(cell) == IF IsNa(cell) THEN NaN ELSE Text(PyStr(cell))

\* df.attrs['original_str'] = df_str
OriginalStr(d) ==
    [present |-> TRUE,
     rows    |-> [i \in 1..Len(d) |-> [c \in DOMAIN d[i] |-> StrCell(d[i][c])]]]

\* a frame without the attribute: df.attrs.get('original_str', None) is None
NoOriginalStr == [present |-> FALSE, rows |-> <<>>]

(***************************************************************************)
(* merge_email_data, app.py:1525-1536.  The lookup table has the columns   *)
(* jkey (join_col_email) and email (email_col); join_col_data is key.      *)
(***************************************************************************)
\* astype(str).str.strip() of a join cell
JoinKey(cell) == Strip(PyStr(cell))

\* mutant: the lookup keeps every row of a join key
MutKeepDuplicates(lookup) ==
    [j \in 1..Len(lookup) |-> [pos |-> j, row |-> lookup[j]]]

\* drop_duplicates('_join_key'): the first row of every join key
DropDuplicates(lookup) ==
    SelectSeq([j \in 1..Len(lookup) |-> [pos |-> j, row |-> lookup[j]]],
              LAMBDA e : \A l \in 1..(e.pos - 1) :
                            JoinKey(lookup[l].jkey) # JoinKey(e.row.jkey))

\* a row of the merged frame: the columns of the left row and email_col of
\* the right one; a column email of the left row and the one of the right
\* row become email_x and email_y (suffixes=('_x', '_y'))
MergedRow(r, v) ==
    IF "email" \in DOMAIN r
    THEN [c \in (DOMAIN r \ {"email"}) \cup {"email_x", "email_y"} |->
             IF c = "email_x" THEN r["email"]
             ELSE IF c = "email_y" THEN v ELSE r[c]]
    ELSE [c \in DOMAIN r \cup {"email"} |-> IF c = "email" THEN v ELSE r[c]]

\* the rows a left row gives in how='left': one per right row of its join
\* key, in the order of the right frame; one with NaN when there is none
RowsFor(r, right) ==
    LET hits == SelectSeq(right, LAMBDA e :
                    JoinKey(e.row.jkey) = JoinKey(r["key"]))
    IN  IF hits = <<>> THEN <<MergedRow(r, NaN)>>
        ELSE [m \in 1..Len(hits) |-> MergedRow(r, hits[m].row.email)]

RECURSIVE LeftJoin(_, _)
LeftJoin(left, right) ==
    IF left = <<>> THEN <<>>
    ELSE RowsFor(Head(left), right) \o LeftJoin(Tail(left), right)

merge_email_data(df_data, lookup) == LeftJoin(df_data, DropDuplicates(lookup))

\* df_merged.columns
MergedColumns(cols) ==
    IF "email" \in cols
    THEN (cols \ {"email"}) \cup {"email_x", "email_y"}
    ELSE cols \cup {"email"}

(***************************************************************************)
(* clean_dataframe, app.py:1539-1559.                                      *)
(***************************************************************************)
\* astype(str), ',' and the two currency marks removed, strip, to_numeric
CleanAmount(cell) ==
    ToNumeric(Strip(RemoveChar(RemoveChar(RemoveChar(PyStr(cell), ","),
                                          "krw"), "won")))

\* astype(str), ',' and '%' removed, strip, to_numeric
CleanPercent(cell) ==
    ToNumeric(Strip(RemoveChar(RemoveChar(PyStr(cell), ","), "%")))

\* mutant: every column is converted
MutCleanCellAlways(cell, col, amt_cols, pct_cols) ==
    CleanPercent(CleanAmount(cell))

\* mutant: a text that is not a number is kept
MutCleanCellKeepText(cell, col, amt_cols, pct_cols) ==
    IF col \in Range(amt_cols) /\ ~IsNa(CleanAmount(cell))
    THEN CleanAmount(cell) ELSE cell

\* what the two loops make of one cell of column col: the amount loop
\* first, the percent loop on its result
CleanCell(cell, col, amt_cols, pct_cols) ==
    LET a == IF col \in Range(amt_cols) THEN CleanAmount(cell) ELSE cell
    IN  IF col \in Range(pct_cols) THEN CleanPercent(a) ELSE a

\* df_cleaned: a copy of df whose listed columns are converted; a listed
\* name that is no column of df is passed over
clean_dataframe(d, amt_cols, pct_cols) ==
    [i \in 1..Len(d) |->
        [c \in DOMAIN d[i] |-> CleanCell(d[i][c], c, amt_cols, pct_cols)]]

(***************************************************************************)
(* group_data_with_wildcard, app.py:1562-1709.                             *)
(***************************************************************************)
\* mutant: the last suffix of the list that val_str ends with is cut off
RECURSIVE MutStripLastSuffix(_, _)
MutStripLastSuffix(val_str, suffixes) ==
    IF suffixes = <<>> THEN val_str
    ELSE IF EndsWith(val_str, suffixes[Len(suffixes)])
         THEN Strip(DropLast(val_str, suffixes[Len(suffixes)]))
         ELSE MutStripLastSuffix(val_str, SubSeq(suffixes, 1, Len(suffixes) - 1))

\* mutant: the suffix test ignores letter case
RECURSIVE MutStripIgnoreCase(_, _)
MutStripIgnoreCase(val_str, suffixes) ==
    IF suffixes = <<>> THEN val_str
    ELSE IF EndsWith(Lower(val_str), Lower(Head(suffixes)))
         THEN Strip(DropLast(val_str, Head(suffixes)))
         ELSE MutStripIgnoreCase(val_str, Tail(suffixes))

\* the loop of get_base_key over wildcard_suffixes: the first suffix that
\* val_str ends with is cut off and the rest stripped
RECURSIVE StripFirstSuffix(_, _)
StripFirstSuffix(val_str, suffixes) ==
    IF suffixes = <<>> THEN val_str
    ELSE IF EndsWith(val_str, Head(suffixes))
         THEN Strip(DropLast(val_str, Head(suffixes)))
         ELSE StripFirstSuffix(val_str, Tail(suffixes))

get_base_key(val, suffixes) == StripFirstSuffix(Strip(PyStr(val)), suffixes)

\* mutant: groups by the raw cell also under use_wildcard
MutGroupColValueRaw(row, cfg) == row.key

\* the value of the column df.groupby groups by: '_base_group_key' with
\* use_wildcard, the raw group_key_col cell without
GroupColValue(row, cfg) ==
    IF cfg.uw THEN Text(get_base_key(row.key, cfg.sfx)) ELSE row.key

\* the group keys of df.groupby(group_col): dropna=True leaves out NaN
GroupKeys(d, cfg) ==
    {GroupColValue(d[i], cfg) : i \in 1..Len(d)} \ {NaN}

\* the index labels of group_df, in the order of df
GroupIndex(d, cfg, k) ==
    Ascending({i \in 1..Len(d) : GroupColValue(d[i], cfg) = k})

\* the order in which groupby (sort=True) yields the keys: numbers before
\* strings, numbers by value, strings by code point
CellLess(a, b) ==
    IF a.t = "num" /\ b.t = "num" THEN a.n < b.n
    ELSE IF a.t = "num" THEN TRUE
    ELSE IF b.t = "num" THEN FALSE
    ELSE StrLess(a.s, b.s)

RECURSIVE SortedKeys(_)
SortedKeys(K) ==
    IF K = {} THEN <<>>
    ELSE LET m == CHOOSE x \in K : \A y \in K \ {x} : CellLess(x, y)
         IN  <<m>> \o SortedKeys(K \ {m})

\* the test of line 1588 that skips a group
IsBlankKey(base_key_str) ==
    base_key_str = <<>> \/ Lower(base_key_str) \in BlankKeys

\* the filter of the comprehension building unique_emails (1593-1594)
KeepEmail(e) ==
    LET s == Strip(PyStr(e))
    IN  s # <<>> /\ Lower(s) \notin BlankEmails

\* unique_emails: dropna().unique() on the raw cells, then each kept value
\* stripped
UniqueEmails(cells) ==
    LET kept == SelectSeq(Unique(DropNa(cells)), KeepEmail)
    IN  [i \in 1..Len(kept) |-> Strip(PyStr(kept[i]))]

\* value_counts() of the raw email cells (NaN dropped)
CountOf(cells, v) == Cardinality({i \in 1..Len(cells) : cells[i] = v})

\* value_counts().index[0]: a raw value with the highest count.  The counts
\* are ordered by sort_values with its default kind='quicksort', which
\* pandas documents as not stable: among values with equal counts it is the
\* numpy build that decides which comes first, so each of them may.
MostCommonChoices(cells) ==
    LET c == DropNa(cells)
    IN  {v \in Range(c) : \A w \in Range(c) : CountOf(c, v) >= CountOf(c, w)}

\* sort_key: 1 for a raw key cell whose str ends with a suffix, else 0
sort_key(row_val, suffixes) ==
    IF \E i \in 1..Len(suffixes) : EndsWith(PyStr(row_val), suffixes[i])
    THEN 1 ELSE 0

\* the orders group_df[...].apply(sort_key).sort_values().index can have.
\* sort_values is called with its default kind='quicksort', which pandas
\* documents as not stable (only 'mergesort' and 'stable' are): the order
\* among rows of equal sort_key is what the numpy build produces (its scalar
\* introsort keeps the order of at most 16 elements, its SIMD sorts of none),
\* so every order of the 0 rows followed by every order of the 1 rows.  The
\* model carries no size cutoff: a group stands for a group of any size.
SortedIndexChoices(d, cfg, idx) ==
    LET zeros == {i \in Range(idx) : sort_key(d[i].key, cfg.sfx) = 0}
        ones  == {i \in Range(idx) : sort_key(d[i].key, cfg.sfx) = 1}
    IN  {p \o q : p \in Orderings(zeros), q \in Orderings(ones)}

\* the row orders of group_df when rows are built (1616-1618)
RowOrderChoices(d, cfg, k) ==
    IF cfg.uw THEN SortedIndexChoices(d, cfg, GroupIndex(d, cfg, k))
    ELSE {GroupIndex(d, cfg, k)}

\* orig_str of lines 1641-1648: the stripped text of the cell (idx, col) of
\* original_str_df when the frame carries one, it has the column and the
\* label, and the text is not NaN; None otherwise
OrigStr(orig, idx, col) ==
    IF /\ orig.present
       /\ idx \in 1..Len(orig.rows)
       /\ col \in DOMAIN orig.rows[idx]
       /\ ~IsNa(orig.rows[idx][col])
    THEN [some |-> TRUE, s |-> Strip(PyStr(orig.rows[idx][col]))]
    ELSE [some |-> FALSE, s |-> <<>>]

\* mutant: a numeric 0 is rendered like any other number
MutRenderZero(value, orig_str) ==
    IF IsNa(value) THEN <<>>
    ELSE IF orig_str.some /\ orig_str.s # <<>> THEN orig_str.s
    ELSE PyStr(value)

\* mutant: a number is rendered with thousands separators
MutRenderThousands(value, orig_str) ==
    IF IsNa(value) THEN <<>>
    ELSE IF value.t = "num" /\ value.n = 0 THEN <<>>
    ELSE IF value.t = "num"
         THEN IF value.n < 0 THEN <<"-">> \o Thousands(0 - value.n)
              ELSE Thousands(value.n)
    ELSE Strip(PyStr(value))

\* row_dict[col] of lines 1633-1675 for a column of the row.  The numbers
\* of the model are whole, so str(int(value)) and str(value) are the
\* digits; a numpy integer, which is no instance of int, takes the last
\* branch and gets the same text.
RenderCell(value, orig_str) ==
    IF IsNa(value) THEN <<>>
    ELSE IF value.t = "num" /\ value.n = 0 THEN <<>>
    ELSE IF orig_str.some /\ orig_str.s # <<>>
         THEN IF Lower(orig_str.s) \in BlankOriginals THEN <<>>
              ELSE orig_str.s
    ELSE IF value.t = "num" THEN IntStr(value.n)
    ELSE LET str_val == Strip(PyStr(value))
         IN  IF Lower(str_val) \in BlankValues THEN <<>> ELSE str_val

\* row_dict of the row with index label idx (1630-1677): a display column
\* that is no column of the row is ''
RowDict(d, cfg, idx) ==
    [col \in Range(cfg.dc) |->
        IF col \in cfg.cols
        THEN RenderCell(d[idx][col], OrigStr(cfg.orig, idx, col))
        ELSE <<>>]

\* f"{total_val:,.0f}" if total_val != 0 else ''
FormatTotal(total_val) ==
    IF total_val = 0 THEN <<>>
    ELSE IF total_val < 0 THEN <<"-">> \o Thousands(-total_val)
    ELSE Thousands(total_val)

\* Series.sum() of column col: NaN cells are skipped
AmountSum(d, col, idx) ==
    SumSeq([j \in 1..Len(idx) |->
              IF IsNa(d[idx[j]][col]) THEN 0 ELSE d[idx[j]][col].n])

\* mutant: the mask keeps every row
MutNonTotalRowsAll(d, cfg, idx) == idx

\* the rows of non_total_df (1685-1687)
NonTotalRows(d, cfg, idx) ==
    SelectSeq(idx, LAMBDA i :
        ~(\E j \in 1..Len(cfg.sfx) : EndsWith(PyStr(d[i].key), cfg.sfx[j])))

\* mutant: totals are built also when calculate_totals is off
MutTotalsAlways(d, cfg, idx) ==
    [col \in Range(cfg.ac) \cap cfg.cols |-> FormatTotal(AmountSum(d, col, idx))]

\* totals (1680-1697): one entry for every name of amount_cols that is a
\* column of the frame
Totals(d, cfg, idx) ==
    IF ~cfg.ct THEN <<>>
    ELSE IF cfg.uw
         THEN [col \in Range(cfg.ac) \cap cfg.cols |->
                  FormatTotal(AmountSum(d, col, NonTotalRows(d, cfg, idx)))]
         ELSE [col \in Range(cfg.ac) \cap cfg.cols |->
                  FormatTotal(AmountSum(d, col, idx))]

\* mutant: 'first' takes the last of unique_emails
MutResolveEmailLast(cells, conflict_policy, pick) ==
    LET unique_emails == UniqueEmails(cells)
    IN  [unique_emails |-> unique_emails,
         has_conflict  |-> Len(unique_emails) > 1,
         recipient     |-> IF Len(unique_emails) = 0 THEN None
                           ELSE Text(unique_emails[Len(unique_emails)]),
         appended      |-> Len(unique_emails) > 1]

\* lines 1592-1611: unique_emails, has_conflict and recipient_email of one
\* group (email_col is configured and is a column of df); pick is the value
\* value_counts().index[0] yields; appended tells whether the branch that
\* appends to conflicts is taken.  A policy other than 'first' and
\* 'most_common' ('skip') takes the last else branch.
ResolveEmail(cells, conflict_policy, pick) ==
    LET unique_emails == UniqueEmails(cells)
        recipient ==
            IF Len(unique_emails) = 0 THEN None
            ELSE IF Len(unique_emails) = 1 THEN Text(unique_emails[1])
            ELSE IF conflict_policy = "first" THEN Text(unique_emails[1])
            ELSE IF conflict_policy = "most_common" THEN Text(PyStr(pick))
            ELSE Text(unique_emails[1])
    IN  [unique_emails |-> unique_emails,
         has_conflict  |-> Len(unique_emails) > 1,
         recipient     |-> recipient,
         appended      |-> Len(unique_emails) > 1]

\* the email cells of group k, in the order of df; none when email_col is
\* no column of the frame (1592-1596: unique_emails = [])
GroupEmails(d, cfg, k) ==
    LET idx == GroupIndex(d, cfg, k)
    IN  IF "email" \in cfg.cols
        THEN [j \in 1..Len(idx) |-> d[idx[j]]["email"]]
        ELSE <<>>

\* the dict stored at grouped_data[base_key_str] (1700-1707).  index is
\* group_df.index when rows is built: the index label of the row each
\* row_dict was rendered from.
GroupRecord(d, cfg, k, order, pick) ==
    LET res == ResolveEmail(GroupEmails(d, cfg, k), cfg.cr, pick)
    IN  [recipient_email |-> res.recipient,
         rows            |-> [j \in 1..Len(order) |-> RowDict(d, cfg, order[j])],
         index           |-> order,
         totals          |-> Totals(d, cfg, order),
         row_count       |-> Len(order),
         has_conflict    |-> res.has_conflict,
         conflict_emails |-> IF res.has_conflict THEN res.unique_emails
                             ELSE <<>>]

\* the entry appended to conflicts (1610-1611)
ConflictEntry(base_key_str, res) ==
    [group_key |-> base_key_str, emails |-> res.unique_emails,
     selected |-> res.recipient]

\* the loop "for base_key, group_df in df.groupby(group_col)" over the keys
\* in groupby's order; acc is (grouped_data, conflicts) so far.  Assigning
\* grouped_data[base_key_str] replaces an entry already stored under the
\* same string.
RECURSIVE GroupLoop(_, _, _, _, _, _)
GroupLoop(keys, d, cfg, srt, pick, acc) ==
    IF keys = <<>> THEN acc
    ELSE LET base_key     == Head(keys)
             base_key_str == PyStr(base_key)
         IN  IF IsBlankKey(base_key_str)
             THEN GroupLoop(Tail(keys), d, cfg, srt, pick, acc)
             ELSE LET res == ResolveEmail(GroupEmails(d, cfg, base_key),
                                          cfg.cr, pick[base_key])
                      rec == GroupRecord(d, cfg, base_key, srt[base_key],
                                         pick[base_key])
                  IN  GroupLoop(Tail(keys), d, cfg, srt, pick,
                        [g |-> (base_key_str :> rec) @@ acc.g,
                         c |-> IF res.appended
                               THEN Append(acc.c, ConflictEntry(base_key_str, res))
                               ELSE acc.c])

\* the groups that pass the test of line 1588
LiveKeys(d, cfg) == {k \in GroupKeys(d, cfg) : ~IsBlankKey(PyStr(k))}

\* what value_counts().index[0] can be for group k; it is evaluated only
\* for a conflict under 'most_common'
PickChoices(d, cfg, k) ==
    IF cfg.cr = "most_common" /\ Len(UniqueEmails(GroupEmails(d, cfg, k))) > 1
    THEN MostCommonChoices(GroupEmails(d, cfg, k))
    ELSE {NaN}

\* one row order per group
RECURSIVE SortOutcomes(_, _, _)
SortOutcomes(K, d, cfg) ==
    IF K = {} THEN {<<>>}
    ELSE LET k == CHOOSE x \in K : TRUE
         IN  {(k :> o) @@ f : o \in RowOrderChoices(d, cfg, k),
                              f \in SortOutcomes(K \ {k}, d, cfg)}

\* one value_counts() winner per group
RECURSIVE PickOutcomes(_, _, _)
PickOutcomes(K, d, cfg) ==
    IF K = {} THEN {<<>>}
    ELSE LET k == CHOOSE x \in K : TRUE
         IN  {(k :> v) @@ f : v \in PickChoices(d, cfg, k),
                              f \in PickOutcomes(K \ {k}, d, cfg)}

\* the (grouped_data, conflicts) pairs a call can return
GroupDataResults(d, cfg) ==
    {GroupLoop(SortedKeys(GroupKeys(d, cfg)), d, cfg, srt, pick,
               [g |-> <<>>, c |-> <<>>]) :
        srt \in SortOutcomes(LiveKeys(d, cfg), d, cfg),
        pick \in PickOutcomes(LiveKeys(d, cfg), d, cfg)}

(***************************************************************************)
(* sanity_check, app.py:1444-1480: the warnings shown before a full send.  *)
(* The list of warnings is modelled by the set of its entries; message is  *)
(* fixed by type and, for zero_amount, by col.                             *)
(***************************************************************************)
\* float(str(val).replace(',', '').replace('won', '')): the number, or no
\* number when float raises ValueError (as it does for '')
FloatOfTotal(val) == ToNumeric(RemoveChar(RemoveChar(val, ","), "won"))

\* 1450-1461: one zero_amount entry per total that parses to 0; a total
\* that float cannot parse is passed over by the bare except
ZeroAmountWarnings(g) ==
    {[group |-> k, type |-> "zero_amount", col |-> c] :
        <<k, c>> \in {<<k2, c2>> \in
            UNION {{<<k3, c3>> : c3 \in DOMAIN g[k3].totals} : k3 \in DOMAIN g} :
            LET amount == FloatOfTotal(g[k2].totals[c2])
            IN  amount.t = "num" /\ amount.n = 0}}

\* 1463-1469: not data.get('recipient_email')
NoEmailWarnings(g) ==
    {[group |-> k, type |-> "no_email", col |-> ""] :
        k \in {k2 \in DOMAIN g :
                  g[k2].recipient_email = None \/ g[k2].recipient_email.s = <<>>}}

\* 1471-1477: row_count == 0
NoDataWarnings(g) ==
    {[group |-> k, type |-> "no_data", col |-> ""] :
        k \in {k2 \in DOMAIN g : g[k2].row_count = 0}}

sanity_check(g) ==
    ZeroAmountWarnings(g) \cup NoEmailWarnings(g) \cup NoDataWarnings(g)

(***************************************************************************)
(* Inputs.                                                                 *)
(***************************************************************************)
SfxSpaceTotal == <<" ", "hap", "gye">>
SfxTotal      == <<"hap", "gye">>

\* suffix lists: the default of session state, what the step 2 text input
\* stores (each entry stripped), and a list of two
SuffixLists == {<<SfxSpaceTotal>>, <<SfxTotal>>, <<SfxTotal, SfxSpaceTotal>>}

EmailA == Text(<<"a">>)
EmailB == Text(<<"b">>)

KeyCells ==
    { Text(<<"A">>),
      Text(<<"A", " ", "hap", "gye">>),
      Text(<<"A", " ", "hap", "gye", " ">>),
      Text(<<" ", "A">>),
      Text(<<" ">>),
      Text(<<"N", "a", "N">>),
      Text(<<"hap", "gye">>),
      Text(<<"(", "bi", "eo", " ", "iss", "eum", ")">>),
      Text(<<"7">>),
      Num(7),
      NaN }

\* key cells and suffix lists for the key normalizer: a key with the suffix
\* twice, a suffix that is the tail of another one (so the order of the list
\* decides), a Latin suffix in both letter cases, an empty list
SfxGye == <<"gye">>
SfxB   == <<"B">>

NormalizerSuffixLists ==
    {<<SfxSpaceTotal>>, <<SfxTotal, SfxSpaceTotal>>, <<SfxGye, SfxTotal>>,
     <<SfxTotal, SfxGye>>, <<SfxB>>, <<>>}

NormalizerCells ==
    { Text(<<"A">>),
      Text(<<"A", " ", "hap", "gye">>),
      Text(<<"A", "hap", "gye">>),
      Text(<<"A", " ", "hap", "gye", " ", "hap", "gye">>),
      Text(<<" ", "A", " ", "hap", "gye", " ">>),
      Text(<<"A", "B">>),
      Text(<<"A", "b">>),
      Text(<<"hap", "gye">>),
      Num(7),
      NaN }

Row(k, e, a) == [key |-> k, email |-> e, amount |-> a]

\* load_sheet gives no table for a sheet without rows (df.empty)
Tables(rows) == UNION {[1..n -> rows] : n \in 1..MaxRows}

\* the tables of a second sheet, one row shorter
ShortTables(rows) == UNION {[1..n -> rows] : n \in 1..(MaxRows - 1)}

KeyRows == {Row(k, EmailA, Num(500)) : k \in KeyCells}

TotalRows ==
    {Row(k, EmailA, a) :
        k \in {Text(<<"A">>), Text(<<"A", " ", "hap", "gye">>), Text(<<"B">>)},
        a \in {Num(500), Num(-500), NaN}}

\* one group A that varies the email cell, a total row of A, and the keys
\* 7 (a number) and '7' (a str)
EmailRows ==
    {Row(Text(<<"A">>), e, Num(500)) :
        e \in {EmailA, Text(<<"a", " ">>), EmailB, Text(<<" ">>), NaN}}
    \cup {Row(k, e, Num(500)) :
            k \in {Text(<<"A", " ", "hap", "gye">>), Text(<<"7">>), Num(7)},
            e \in {EmailA, EmailB}}

NormalizerRows == {Row(k, EmailA, Num(500)) : k \in NormalizerCells}

\* amount cells as load_sheet gives them: numbers, texts with a thousands
\* separator or a currency mark, '0', a text that is no number, an empty
\* cell
AmountCells ==
    { Num(0),
      Num(100000),
      Text(<<"0">>),
      Text(<<"1", ",", "0", "0", "0">>),
      Text(<<"5", "0", "0", "won">>),
      Text(<<"N", "/", "A">>),
      NaN }

\* one group A with every amount cell and a total row of A
AmountRows ==
    {Row(Text(<<"A">>), EmailA, a) : a \in AmountCells}
    \cup {Row(Text(<<"A", " ", "hap", "gye">>), EmailA, Num(100000))}

\* the table without its email column: the data sheet of a workbook whose
\* emails are on a sheet of their own
WithoutEmail(d) ==
    [i \in 1..Len(d) |-> [c \in {"key", "amount"} |-> d[i][c]]]

LookupRow(k, e) == [jkey |-> k, email |-> e]

\* an email sheet with the address of A
LookupOfA == [loaded |-> TRUE, rows |-> <<LookupRow(Text(<<"A">>), EmailA)>>]

\* data rows without an email column and with one, for the merge with an
\* email sheet
JoinCells == {Text(<<"A">>), Text(<<" ", "A">>), NaN}

DataRows == {[key |-> k, amount |-> Num(500)] : k \in JoinCells}

DataRowsWithEmail == {Row(k, EmailB, Num(500)) : k \in JoinCells}

\* email sheets: join keys that match after the strip, that match nothing
\* and that are empty, the same key on more than one row
LookupRows ==
    { LookupRow(Text(<<"A">>), EmailB),
      LookupRow(Text(<<"A", " ">>), EmailA),
      LookupRow(Text(<<"C">>), EmailA),
      LookupRow(NaN, EmailB) }

\* rows for the column checks: keys with and without a leading space,
\* amounts that the amount loop, the percent loop or neither converts
ColumnRows ==
    {Row(k, EmailA, a) :
        k \in {Text(<<"A">>), Text(<<" ", "A">>)},
        a \in {Text(<<"1", ",", "0", "0", "0">>), Text(<<"5", "0", "%">>),
                Num(0)}}

\* column lists of the settings; bonus is no column of the table
AmountColLists == {<<>>, <<"amount">>, <<"amount", "bonus">>}

\* st.session_state.df_email before an email sheet is loaded
NoLookup == [loaded |-> FALSE, rows |-> <<>>]

NoError == [type |-> "", key |-> ""]

\* the KeyError that df[name] and df.groupby(name) raise for a name that is
\* no column
KeyError(name) == [type |-> "KeyError", key |-> name]

\* no full send has been started (constants.py:204, 217, 218; the key
\* confirm_send is created False at app.py:4190)
NoRun == [pc |-> "idle", i |-> 0, order |-> <<>>, results |-> <<>>,
          stop_clicked |-> FALSE]

InitSending ==
    /\ confirm_send = FALSE
    /\ emergency_stop = FALSE
    /\ sent_groups = {}
    /\ send_results = <<>>
    /\ send_history = <<>>
    /\ accepted = <<>>
    /\ send_run = NoRun

\* no call of create_smtp_connection is under way
NoCall == [pc |-> "idle", attempt |-> 0, last_error |-> "None",
           tried |-> <<>>, result |-> <<>>]

\* the session with the sheet loaded and step 2 showing
InitOutputs ==
    /\ df_work = <<>>
    /\ grouped_data = <<>>
    /\ conflicts = <<>>
    /\ error = NoError
    /\ phase = "loaded"
    /\ current_step = 2
    /\ df_original = df
    /\ InitSending
    /\ smtp = NoCall

\* a data sheet with the columns key, email, amount that holds the emails
\* itself; display_cols is columns.copy() (3055, 3463)
InitSheet ==
    /\ columns = {"key", "email", "amount"}
    /\ original_str = OriginalStr(df)
    /\ df_email = NoLookup
    /\ use_separate_email_sheet = FALSE
    /\ group_key_col = "key"
    /\ display_cols = <<"key", "email", "amount">>

\* tables that vary the group-key cell
Init ==
    /\ df \in Tables(KeyRows)
    /\ InitSheet
    /\ amount_cols = <<"amount">>
    /\ percent_cols = <<>>
    /\ use_wildcard \in BOOLEAN
    /\ wildcard_suffixes \in SuffixLists
    /\ conflict_resolution = "first"
    /\ calculate_totals = FALSE
    /\ InitOutputs

\* tables and suffix lists that exercise get_base_key
InitNormalizer ==
    /\ df \in Tables(NormalizerRows)
    /\ InitSheet
    /\ amount_cols = <<"amount">>
    /\ percent_cols = <<>>
    /\ use_wildcard \in BOOLEAN
    /\ wildcard_suffixes \in NormalizerSuffixLists
    /\ conflict_resolution = "first"
    /\ calculate_totals = FALSE
    /\ InitOutputs

\* a data sheet that holds no email column, with an email sheet
InitSheetAndEmailSheet ==
    /\ columns = {"key", "amount"}
    /\ original_str = OriginalStr(df)
    /\ use_separate_email_sheet = TRUE
    /\ group_key_col = "key"
    /\ display_cols = <<"key", "amount">>

\* tables that vary the raw amount cell, for both kinds of workbook and
\* with amount_cols empty, naming the column, and naming a missing one too
InitAmounts ==
    /\ \/ df \in Tables(AmountRows) /\ InitSheet
       \/ /\ \E t \in ShortTables(AmountRows) : df = WithoutEmail(t)
          /\ InitSheetAndEmailSheet
          /\ df_email = LookupOfA
    /\ amount_cols \in AmountColLists
    /\ percent_cols = <<>>
    /\ use_wildcard \in BOOLEAN
    /\ wildcard_suffixes = <<SfxSpaceTotal>>
    /\ conflict_resolution = "first"
    /\ calculate_totals \in BOOLEAN
    /\ InitOutputs

\* a data sheet and an email sheet that vary the join cells
InitMerge ==
    /\ \/ df \in Tables(DataRows) /\ columns = {"key", "amount"}
                                  /\ display_cols = <<"key", "amount">>
       \/ df \in Tables(DataRowsWithEmail)
            /\ columns = {"key", "email", "amount"}
            /\ display_cols = <<"key", "email", "amount">>
    /\ original_str = OriginalStr(df)
    /\ \E t \in ShortTables(LookupRows) :
          df_email = [loaded |-> TRUE, rows |-> t]
    /\ use_separate_email_sheet = TRUE
    /\ group_key_col = "key"
    /\ amount_cols = <<"amount">>
    /\ percent_cols = <<>>
    /\ use_wildcard = TRUE
    /\ wildcard_suffixes = <<SfxSpaceTotal>>
    /\ conflict_resolution = "first"
    /\ calculate_totals = FALSE
    /\ InitOutputs

\* settings that name columns the table has and columns it has not
InitColumns ==
    /\ df \in Tables(ColumnRows)
    /\ columns = {"key", "email", "amount"}
    /\ original_str = OriginalStr(df)
    /\ df_email = NoLookup
    /\ use_separate_email_sheet = FALSE
    /\ group_key_col \in {"key", "company"}
    /\ display_cols = <<"key", "email", "amount">>
    /\ amount_cols \in AmountColLists
    /\ percent_cols \in {<<>>, <<"amount">>}
    /\ use_wildcard \in BOOLEAN
    /\ wildcard_suffixes = <<SfxSpaceTotal>>
    /\ conflict_resolution = "first"
    /\ calculate_totals = TRUE
    /\ InitOutputs

\* tables that vary the amount cell
InitTotals ==
    /\ df \in Tables(TotalRows)
    /\ InitSheet
    /\ amount_cols = <<"amount">>
    /\ percent_cols = <<>>
    /\ use_wildcard \in BOOLEAN
    /\ wildcard_suffixes = <<SfxSpaceTotal>>
    /\ conflict_resolution = "first"
    /\ calculate_totals \in BOOLEAN
    /\ InitOutputs

\* tables that vary the email cell
InitEmails ==
    /\ df \in Tables(EmailRows)
    /\ InitSheet
    /\ amount_cols = <<"amount">>
    /\ percent_cols = <<>>
    /\ use_wildcard \in BOOLEAN
    /\ wildcard_suffixes = <<SfxSpaceTotal>>
    /\ conflict_resolution \in {"first", "most_common", "skip"}
    /\ calculate_totals = FALSE
    /\ InitOutputs

(***************************************************************************)
(* The step 2 -> 3 transition (_save_step2_config_and_move 3471-3493,      *)
(* execute_step_transition 2447-2469): df_work = df.copy(), the merge with *)
(* the email sheet when one is used, clean_dataframe, the store of         *)
(* df_cleaned as st.session_state.df, group_data_with_wildcard.            *)
(***************************************************************************)
Merging == use_separate_email_sheet /\ df_email.loaded

\* DataFrame.merge hands df.attrs on or not, as the pandas build has it
AttrsAfterMerge == {original_str, NoOriginalStr}

\* mutant: no name is taken for missing
MutColumnAlwaysThere(name, cols) == FALSE

\* df[name] and df.groupby(name) raise KeyError for a name that is no
\* column of df
ColumnMissing(name, cols) == name \notin cols

\* the processing block both step 2 buttons run (2447-2469, 3472-3493)
\* with dc as the display_cols argument of group_data_with_wildcard
RunProcessing(dc) ==
    \E attrs \in (IF Merging THEN AttrsAfterMerge ELSE {original_str}) :
          LET merged  == IF Merging THEN merge_email_data(df, df_email.rows)
                         ELSE df
              cols    == IF Merging THEN MergedColumns(columns) ELSE columns
              cleaned == clean_dataframe(merged, amount_cols, percent_cols)
          IN  /\ df_work' = merged
              /\ df' = cleaned
              /\ columns' = cols
              /\ original_str' = attrs
              /\ IF ColumnMissing(group_key_col, cols)
                 THEN /\ error' = KeyError(group_key_col)
                      /\ phase' = "error"
                      /\ UNCHANGED <<grouped_data, conflicts>>
                 ELSE /\ \E out \in GroupDataResults(cleaned,
                               Config(use_wildcard, wildcard_suffixes,
                                      conflict_resolution, calculate_totals,
                                      amount_cols, dc, cols, attrs)) :
                            /\ grouped_data' = out.g
                            /\ conflicts' = out.c
                      /\ error' = NoError
                      /\ phase' = "grouped"

ProcessData ==
    /\ phase = "loaded"
    /\ RunProcessing(display_cols)
    /\ UNCHANGED settings
    /\ UNCHANGED <<current_step, df_original, sending, smtp>>

Next == ProcessData

Spec == Init /\ [][Next]_vars
SpecNormalizer == InitNormalizer /\ [][Next]_vars
SpecTotals == InitTotals /\ [][Next]_vars
SpecEmails == InitEmails /\ [][Next]_vars
SpecAmounts == InitAmounts /\ [][Next]_vars
SpecColumns == InitColumns /\ [][Next]_vars
SpecMerge == InitMerge /\ [][Next]_vars

(***************************************************************************)
(* create_smtp_connection, app.py:1722-1814.  One action per pass of the   *)
(* loop "for attempt in range(max_retries)"; what the connection and the   *)
(* login do is the environment's choice.  An exception is its class, its   *)
(* smtp_code and the words its text holds; str(e) of an authentication     *)
(* error shows the code and the server's text.                             *)
(***************************************************************************)
max_retries == 3

Connected == [kind |-> "ok", code |-> 0, words |-> {}]

AuthError(code, words) ==
    [kind |-> "SMTPAuthenticationError", code |-> code, words |-> words]

OtherError(kind, words) == [kind |-> kind, code |-> 0, words |-> words]

\* what one pass can meet: the login accepted, authentication errors of
\* the codes the handler names and of another one, with server texts that
\* hold none or one of the words the handler looks for, and the other
\* exception classes, with and without 'handshake' / 'ssl' in the text
SmtpOutcomes ==
    { Connected,
      AuthError(454, {}), AuthError(535, {}), AuthError(535, {"454"}),
      AuthError(535, {"Temporary"}), AuthError(553, {}),
      AuthError(553, {"IP"}), AuthError(550, {}),
      OtherError("timeout", {}), OtherError("gaierror", {}),
      OtherError("SSLError", {"handshake"}), OtherError("SSLError", {}),
      OtherError("ConnectionRefusedError", {}),
      OtherError("Exception", {"ssl"}), OtherError("Exception", {"handshake"}),
      OtherError("Exception", {}) }

\* the digits of smtp_code as they stand in str(e)
CodeWord(code) ==
    IF code = 454 THEN "454" ELSE IF code = 535 THEN "535"
    ELSE IF code = 553 THEN "553" ELSE "550"

\* w in error_str (for 'handshake' and 'ssl': in error_str.lower())
InErrorStr(w, e) ==
    w \in e.words \/ (e.kind = "SMTPAuthenticationError" /\ w = CodeWord(e.code))

\* the except clauses 1760-1812 for exception e: retry tells whether the
\* clause ends in "continue", msg names the text it stores in last_error
\* or returns
Handle(e) ==
    IF e.kind = "SMTPAuthenticationError"
    THEN IF e.code = 454 \/ InErrorStr("454", e) \/ InErrorStr("Temporary", e)
         THEN [retry |-> TRUE, msg |-> "auth server temporary error"]
         ELSE IF e.code = 535 \/ InErrorStr("535", e)
         THEN [retry |-> FALSE, msg |-> "authentication rejected"]
         ELSE IF e.code = 553 \/ InErrorStr("553", e)
         THEN IF InErrorStr("IP", e)
              THEN [retry |-> FALSE, msg |-> "IP blocked"]
              ELSE [retry |-> FALSE, msg |-> "sender mismatch"]
         ELSE [retry |-> FALSE, msg |-> "authentication failed"]
    ELSE IF e.kind = "timeout"
    THEN [retry |-> TRUE, msg |-> "timed out"]
    ELSE IF e.kind = "gaierror"
    THEN [retry |-> FALSE, msg |-> "server not found"]
    ELSE IF e.kind = "SSLError"
    THEN IF InErrorStr("handshake", e)
         THEN [retry |-> TRUE, msg |-> "SSL handshake failed"]
         ELSE [retry |-> FALSE, msg |-> "SSL error"]
    ELSE IF e.kind = "ConnectionRefusedError"
    THEN [retry |-> FALSE, msg |-> "connection refused"]
    ELSE IF InErrorStr("handshake", e) \/ InErrorStr("ssl", e)
         THEN [retry |-> TRUE, msg |-> "SSL connection error"]
         ELSE [retry |-> FALSE, msg |-> "connection error"]

\* the tuple a return statement gives: (server, None) or (None, message)
Returned(server, message) == <<server, message>>

\* the call has been entered: last_error = None, the loop at attempt 0
InitCall == [pc |-> "loop", attempt |-> 0, last_error |-> "None",
             tried |-> <<>>, result |-> <<>>]

\* one pass of the loop body, 1737-1812
SmtpAttempt ==
    /\ smtp.pc = "loop"
    /\ smtp.attempt < max_retries
    /\ \E e \in SmtpOutcomes :
          smtp' =
            IF e = Connected
            THEN [smtp EXCEPT !.pc = "returned",
                              !.tried = Append(@, e),
                              !.result = Returned("server", "None")]
            ELSE IF Handle(e).retry
            THEN [smtp EXCEPT !.attempt = @ + 1,
                              !.tried = Append(@, e),
                              !.last_error = Handle(e).msg]
            ELSE [smtp EXCEPT !.pc = "returned",
                              !.tried = Append(@, e),
                              !.result = Returned("None", Handle(e).msg)]
    /\ UNCHANGED <<df, columns, original_str, df_work, grouped_data, conflicts,
                   error, phase, settings, current_step, df_original, sending>>

\* the loop ran out: line 1814 returns (None, message built from last_error)
SmtpGiveUp ==
    /\ smtp.pc = "loop"
    /\ smtp.attempt = max_retries
    /\ smtp' = [smtp EXCEPT !.pc = "returned",
                            !.result = Returned("None", "connection failed")]
    /\ UNCHANGED <<df, columns, original_str, df_work, grouped_data, conflicts,
                   error, phase, settings, current_step, df_original, sending>>

NextSmtp == SmtpAttempt \/ SmtpGiveUp

\* a session in which the connection is being made; the table is of no
\* account here
InitSmtp ==
    /\ df = <<Row(Text(<<"A">>), EmailA, Num(500))>>
    /\ InitSheet
    /\ amount_cols = <<"amount">>
    /\ percent_cols = <<>>
    /\ use_wildcard = TRUE
    /\ wildcard_suffixes = <<SfxSpaceTotal>>
    /\ conflict_resolution = "first"
    /\ calculate_totals = FALSE
    /\ df_work = <<>>
    /\ grouped_data = <<>>
    /\ conflicts = <<>>
    /\ error = NoError
    /\ phase = "loaded"
    /\ current_step = 5
    /\ df_original = df
    /\ InitSending
    /\ smtp = InitCall

\* the loop is sequential code: a pass that can run does run
SpecSmtp == InitSmtp /\ [][NextSmtp]_vars /\ WF_vars(NextSmtp)

(***************************************************************************)
(* validate_email, app.py:1716-1719: the pattern                           *)
(*   ^[a-zA-Z0-9._%+-]+@[a-zA-Z0-9.-]+\.[a-zA-Z]{2,}$                      *)
(* matched against email.strip().                                          *)
(***************************************************************************)
\* [a-zA-Z] and [0-9] on the characters the model uses
AsciiLetters == {"A", "B", "E", "N", "O", "T", "a", "b", "e", "n", "o", "t"}

AsciiDigits == {"0", "1", "2", "3", "4", "5", "6", "7", "8", "9"}

\* [a-zA-Z0-9._%+-]
LocalPartChar(c) == c \in AsciiLetters \cup AsciiDigits \cup {".", "_", "%", "+", "-"}

\* [a-zA-Z0-9.-]
DomainChar(c) == c \in AsciiLetters \cup AsciiDigits \cup {".", "-"}

\* re.match of the pattern: at is the place of "@", dot the place of the
\* "." before the closing run of two or more letters
MatchesEmailPattern(s) ==
    \E at \in 1..Len(s), dot \in 1..Len(s) :
        /\ s[at] = "@"
        /\ s[dot] = "."
        /\ 1 < at
        /\ at + 1 < dot
        /\ dot + 2 <= Len(s)
        /\ \A p \in 1..(at - 1) : LocalPartChar(s[p])
        /\ \A p \in (at + 1)..(dot - 1) : DomainChar(s[p])
        /\ \A p \in (dot + 1)..Len(s) : s[p] \in AsciiLetters

\* "if not email: return False" holds for None and for ''
validate_email(email) ==
    /\ email # None
    /\ email.s # <<>>
    /\ MatchesEmailPattern(Strip(email.s))

\* the groups steps 3 and 5 count as ready to send (3513, 4072, 2381)
valid_groups(g) ==
    {k \in DOMAIN g : validate_email(g[k].recipient_email)}

(***************************************************************************)
(* The full send of step 5, app.py:4162-4368.  The keys of a result, which *)
(* the source writes in Hangul, are group, email, status and reason; the   *)
(* three values of status are "success", "failed" and "skipped".           *)
(***************************************************************************)
\* the parameters of render_email_content (email_template.py:612-618)
RenderEmailContentParams ==
    {"group_key", "group_data", "display_cols", "amount_cols", "templates"}

\* the keyword arguments of the call in the send loop (4314-4316); the five
\* positional arguments fill the five parameters
LoopCallKeywords == {"extra_html_before_table"}

\* Python raises TypeError for a keyword argument that names no parameter
CallRaisesTypeError(params, keywords) == ~(keywords \subseteq params)

\* what send_email returns (1817-1831): (True, None) when the server took
\* the message, (False, str(e)) when sendmail raised
SendEmailReturns == {<<TRUE, "None">>, <<FALSE, "error">>}

Result(gk, gd, status, reason) ==
    [group |-> gk, email |-> gd.recipient_email, status |-> status,
     reason |-> reason]

\* mutant: a group is marked as sent whatever became of it
MutSentGroupsAfterAny(sent, gk, status) == sent \cup {gk}

\* sent_groups.add(gk) is reached in the branch "if ok" only (4325)
SentGroupsAfter(sent, gk, status) ==
    IF status = "success" THEN sent \cup {gk} ELSE sent

\* valid_groups.items(): the order of the dict, which for str keys is
\* groupby's order by code point
RECURSIVE GroupOrder(_)
GroupOrder(K) ==
    IF K = {} THEN <<>>
    ELSE LET m == CHOOSE x \in K : \A y \in K \ {x} : StrLess(x, y)
         IN  <<m>> \o GroupOrder(K \ {m})

\* what create_smtp_connection hands to the full send (4287)
ConnectionReturns == {Returned("server", "None"), Returned("None", "error")}

\* the runs of the full send the model follows in one session
MaxRuns == 2

\* the send button (4178-4186, 4193-4194): disabled without a valid group;
\* an SMTP configuration is taken to be stored in the session
ClickSend ==
    /\ current_step = 5
    /\ send_run.pc = "idle"
    /\ valid_groups(grouped_data) # {}
    /\ ~confirm_send
    /\ confirm_send' = TRUE
    /\ UNCHANGED <<df, columns, original_str, df_work, grouped_data, conflicts,
                   error, phase, settings, current_step, df_original,
                   emergency_stop, sent_groups, send_results, send_history,
                   accepted, send_run, smtp>>

\* the cancel button of the confirm dialog (4202-4204)
CancelSend ==
    /\ current_step = 5
    /\ send_run.pc = "idle"
    /\ confirm_send
    /\ confirm_send' = FALSE
    /\ UNCHANGED <<df, columns, original_str, df_work, grouped_data, conflicts,
                   error, phase, settings, current_step, df_original,
                   emergency_stop, sent_groups, send_results, send_history,
                   accepted, send_run, smtp>>

\* the confirm button (4200, 4208-4210) and the run it starts, up to the
\* loop (4260-4292).  stop_clicked is what st.button of the stop button
\* returned in this run (4271); the connection succeeds or not.
StartSend ==
    /\ current_step = 5
    /\ send_run.pc = "idle"
    /\ confirm_send
    /\ valid_groups(grouped_data) # {}
    /\ Len(send_history) < MaxRuns
    /\ confirm_send' = FALSE
    /\ \E stop_clicked \in BOOLEAN, conn \in ConnectionReturns :
          IF conn[1] # "None"
          THEN /\ emergency_stop' = FALSE
               /\ send_run' = [pc |-> "loop", i |-> 1,
                               order |-> GroupOrder(valid_groups(grouped_data)),
                               results |-> <<>>,
                               stop_clicked |-> stop_clicked]
          ELSE /\ emergency_stop' = (stop_clicked \/ emergency_stop)
               /\ send_run' = NoRun
    /\ UNCHANGED <<df, columns, original_str, df_work, grouped_data, conflicts,
                   error, phase, settings, current_step, df_original,
                   sent_groups, send_results, send_history, accepted, smtp>>

\* one pass of "for i, (gk, gd) in enumerate(valid_groups.items())"
\* (4294-4346); the pass that ends in break leaves the loop, and so does
\* the pass of the last group
SendOne ==
    /\ send_run.pc = "loop"
    /\ send_run.i <= Len(send_run.order)
    /\ LET gk == send_run.order[send_run.i]
           gd == grouped_data[gk]
           after(status, reason) ==
               [send_run EXCEPT
                   !.results = Append(@, Result(gk, gd, status, reason)),
                   !.i = @ + 1,
                   !.pc = IF send_run.i = Len(send_run.order)
                          THEN "finish" ELSE "loop"]
       IN  IF emergency_stop
           THEN /\ send_run' = [send_run EXCEPT !.pc = "finish"]
                /\ UNCHANGED <<sent_groups, accepted>>
           ELSE IF gk \in sent_groups
           THEN /\ send_run' = after("skipped", "already sent")
                /\ UNCHANGED <<sent_groups, accepted>>
           ELSE IF CallRaisesTypeError(RenderEmailContentParams,
                                       LoopCallKeywords)
           THEN /\ send_run' = after("failed", "TypeError")
                /\ sent_groups' = SentGroupsAfter(sent_groups, gk, "failed")
                /\ UNCHANGED accepted
           ELSE \E ret \in SendEmailReturns :
                   LET status == IF ret[1] THEN "success" ELSE "failed"
                   IN  /\ send_run' = after(status, ret[2])
                       /\ sent_groups' = SentGroupsAfter(sent_groups, gk, status)
                       /\ accepted' = IF ret[1] THEN Append(accepted, gk)
                                      ELSE accepted
    /\ UNCHANGED <<df, columns, original_str, df_work, grouped_data, conflicts,
                   error, phase, settings, current_step, df_original,
                   confirm_send, emergency_stop, send_results, send_history,
                   smtp>>

\* after the loop (4348-4363): the results are stored, and the history is
\* written unless emergency_stop is set; save_send_history can fail, which
\* the handler only logs
EndSend ==
    /\ send_run.pc = "finish"
    /\ send_results' = send_run.results
    /\ IF emergency_stop
       THEN UNCHANGED send_history
       ELSE \E db_ok \in BOOLEAN :
               send_history' = IF db_ok
                               THEN Append(send_history, send_run.results)
                               ELSE send_history
    /\ send_run' = NoRun
    /\ UNCHANGED <<df, columns, original_str, df_work, grouped_data, conflicts,
                   error, phase, settings, current_step, df_original,
                   confirm_send, emergency_stop, sent_groups, accepted, smtp>>

(***************************************************************************)
(* The wizard: the buttons of the five steps (render_step1 .. render_step5)*)
(* and the sidebar's prev / next (render_step_nav_buttons 2486-2502,       *)
(* execute_step_transition 2394-2483).  Every handler ends in st.rerun(),  *)
(* so an action that arrives at step 2 takes in what render_step2 stores   *)
(* when it draws the page.  render_step_indicator (1848-1898) is called    *)
(* from nowhere and has no action.                                         *)
(***************************************************************************)
\* st.session_state.df is None
NoTable == <<>>

\* st.session_state.group_key_col is None
NoColumn == "None"

\* df.columns.tolist(); the order has no bearing on the row dicts of
\* grouped_data, which are compared as dicts
ColumnList(cols) ==
    SelectSeq(<<"key", "email", "amount", "email_x", "email_y">>,
              LAMBDA c : c \in cols)

\* [s.strip() for s in suffixes.split(',') if s.strip()] of the joined list
\* (3144-3150)
StripEntries(sfx) ==
    SelectSeq([j \in 1..Len(sfx) |-> Strip(sfx[j])], LAMBDA s : s # <<>>)

\* the merges a table has been through, read off its columns
MergesDone(cols) ==
    IF "email_x" \in cols THEN (IF "email" \in cols THEN 3 ELSE 2)
    ELSE IF "email" \in cols /\ Merging THEN 1
    ELSE 0

\* the merges of one upload the model follows
MaxMerges == 2

\* what render_step2 stores when the page is drawn anew for a table with
\* the columns cols: the select box of the group column (3124-3133), all
\* columns as display_cols (3055, 3321-3338), the amount and percent
\* columns found by name (3060-3063, 3356-3390; amount is the one column
\* whose name holds a keyword), the stripped suffixes (3150)
EnterStep2(cols) ==
    /\ group_key_col' = IF group_key_col \in cols THEN group_key_col ELSE "key"
    /\ display_cols' = ColumnList(cols)
    /\ amount_cols' = IF "amount" \in cols THEN <<"amount">> ELSE <<>>
    /\ percent_cols' = <<>>
    /\ wildcard_suffixes' = IF use_wildcard THEN StripEntries(wildcard_suffixes)
                            ELSE wildcard_suffixes
    /\ UNCHANGED <<df_email, use_separate_email_sheet, use_wildcard,
                   conflict_resolution, calculate_totals>>

\* the data sheets and the email sheet of the workbooks that are uploaded
EmailValid == Text(<<"a", "@", "b", ".", "n", "e", "t">>)

WizardRows ==
    {Row(Text(<<"A">>), EmailValid, Num(500)),
     Row(Text(<<"B">>), EmailA, Num(500))}

WizardLookup ==
    [loaded |-> TRUE, rows |-> <<LookupRow(Text(<<"A">>), EmailValid)>>]

\* render_step1 with a file in the uploader (2842-3011): the data sheet
\* becomes df and df_original; with the check box of the separate email
\* sheet set, that sheet becomes df_email
LoadSheets ==
    /\ current_step = 1
    /\ \E d \in ShortTables(WizardRows), separate \in BOOLEAN :
          /\ df' = IF separate THEN WithoutEmail(d) ELSE d
          /\ columns' = IF separate THEN {"key", "amount"}
                        ELSE {"key", "email", "amount"}
          /\ df_email' = IF separate THEN WizardLookup ELSE df_email
          /\ use_separate_email_sheet' = separate
    /\ df' # df
    /\ original_str' = OriginalStr(df')
    /\ df_original' = df'
    /\ phase' = "loaded"
    /\ UNCHANGED <<group_key_col, amount_cols, percent_cols, display_cols,
                   use_wildcard, wildcard_suffixes, conflict_resolution,
                   calculate_totals, df_work, grouped_data, conflicts, error,
                   current_step, sending, smtp>>

\* the next button of step 1 (3025-3028), drawn in the run that loaded the
\* sheet
Step1Next ==
    /\ current_step = 1
    /\ df # NoTable
    /\ df = df_original
    /\ current_step' = 2
    /\ EnterStep2(columns)
    /\ UNCHANGED <<df, columns, original_str, df_work, grouped_data, conflicts,
                   error, phase, df_original, sending, smtp>>

\* the display columns the user can pick in the multiselect (3327-3338)
DisplayChoices(cols) == {ColumnList(cols), ColumnList(cols \ {"amount"})}

\* a change of the multiselect of step 2
ConfigureStep2 ==
    /\ current_step = 2
    /\ df # NoTable
    /\ \E dc \in DisplayChoices(columns) :
          /\ dc # display_cols
          /\ display_cols' = dc
    /\ UNCHANGED <<df, columns, original_str, df_work, grouped_data, conflicts,
                   error, phase, df_email, use_separate_email_sheet,
                   group_key_col, amount_cols, percent_cols, use_wildcard,
                   wildcard_suffixes, conflict_resolution, calculate_totals,
                   current_step, df_original, sending, smtp>>

\* the processing of a step 2 button, and the move to step 3 that a
\* KeyError keeps from happening
ProcessAndMove(dc) ==
    /\ MergesDone(columns) < MaxMerges
    /\ RunProcessing(dc)
    /\ current_step' = IF error' = NoError THEN 3 ELSE current_step
    /\ UNCHANGED <<settings, df_original, sending, smtp>>

\* the next button of step 2 (3448-3451): _save_step2_config_and_move with
\* display_cols = columns.copy() (3463)
Step2Next ==
    /\ current_step = 2
    /\ df # NoTable
    /\ ProcessAndMove(ColumnList(columns))

\* mutant: step 3 lets every session pass
MutCanLeaveStep3Always(g) == TRUE

\* can_go_next_step(3) (2379-2385) and "disabled=valid==0" (3784)
CanLeaveStep3(g) == valid_groups(g) # {}

\* the next button of step 3 (3783-3786); render_step3 returns before it
\* draws the button when grouped_data is empty (3506-3509)
Step3Next ==
    /\ current_step = 3
    /\ CanLeaveStep3(grouped_data)
    /\ current_step' = 4
    /\ UNCHANGED <<df, columns, original_str, df_work, grouped_data, conflicts,
                   error, phase, settings, df_original, sending, smtp>>

\* the next button of step 4 (4004-4006)
Step4Next ==
    /\ current_step = 4
    /\ current_step' = 5
    /\ UNCHANGED <<df, columns, original_str, df_work, grouped_data, conflicts,
                   error, phase, settings, df_original, sending, smtp>>

\* the sidebar's next at step 1 (2413-2421)
SidebarNext1 ==
    /\ current_step = 1
    /\ df # NoTable
    /\ current_step' = 2
    /\ EnterStep2(columns)
    /\ UNCHANGED <<df, columns, original_str, df_work, grouped_data, conflicts,
                   error, phase, df_original, sending, smtp>>

\* the sidebar's next at step 2 (2413-2471): display_cols of the session
SidebarNext2 ==
    /\ current_step = 2
    /\ display_cols # <<>>
    /\ group_key_col # NoColumn
    /\ ProcessAndMove(display_cols)

\* the sidebar's next at step 3 (2413-2416, 2473-2476)
SidebarNext3 ==
    /\ current_step = 3
    /\ CanLeaveStep3(grouped_data)
    /\ current_step' = 4
    /\ UNCHANGED <<df, columns, original_str, df_work, grouped_data, conflicts,
                   error, phase, settings, df_original, sending, smtp>>

\* the sidebar's next at step 4 (2478-2481)
SidebarNext4 ==
    /\ current_step = 4
    /\ current_step' = 5
    /\ UNCHANGED <<df, columns, original_str, df_work, grouped_data, conflicts,
                   error, phase, settings, df_original, sending, smtp>>

\* the sidebar's prev (2405-2410), away from step 3
SidebarPrevTo2 ==
    /\ current_step = 3
    /\ current_step' = 2
    /\ EnterStep2(columns)
    /\ UNCHANGED <<df, columns, original_str, df_work, grouped_data, conflicts,
                   error, phase, df_original, sending, smtp>>

\* the sidebar's prev (2405-2410) at the steps 2, 4 and 5
SidebarPrev ==
    /\ current_step \in {2, 4, 5}
    /\ send_run.pc = "idle"
    /\ current_step' = current_step - 1
    /\ UNCHANGED <<df, columns, original_str, df_work, grouped_data, conflicts,
                   error, phase, settings, df_original, sending, smtp>>

\* reset_and_restart (1286-1307), the restart button of the steps 2 to 5
\* (3445, 3782, 4002, 4159): every key of the session but smtp_config goes
\* back to SESSION_STATE_DEFAULTS
Restart ==
    /\ current_step \in 2..5
    /\ send_run.pc = "idle"
    /\ df' = NoTable
    /\ columns' = {}
    /\ original_str' = NoOriginalStr
    /\ df_email' = NoLookup
    /\ use_separate_email_sheet' = FALSE
    /\ group_key_col' = NoColumn
    /\ amount_cols' = <<>>
    /\ percent_cols' = <<>>
    /\ display_cols' = <<>>
    /\ use_wildcard' = TRUE
    /\ wildcard_suffixes' = <<SfxSpaceTotal>>
    /\ conflict_resolution' = "first"
    /\ calculate_totals' = FALSE
    /\ df_work' = <<>>
    /\ grouped_data' = <<>>
    /\ conflicts' = <<>>
    /\ error' = NoError
    /\ phase' = "empty"
    /\ current_step' = 1
    /\ df_original' = NoTable
    /\ confirm_send' = FALSE
    /\ emergency_stop' = FALSE
    /\ sent_groups' = {}
    /\ send_results' = <<>>
    /\ send_history' = send_history
    /\ accepted' = accepted
    /\ send_run' = NoRun
    /\ UNCHANGED smtp

\* the session as init_session_state makes it (constants.py:159-218)
InitWizard ==
    /\ df = NoTable
    /\ columns = {}
    /\ original_str = NoOriginalStr
    /\ df_email = NoLookup
    /\ use_separate_email_sheet = FALSE
    /\ group_key_col = NoColumn
    /\ amount_cols = <<>>
    /\ percent_cols = <<>>
    /\ display_cols = <<>>
    /\ use_wildcard = TRUE
    /\ wildcard_suffixes = <<SfxSpaceTotal>>
    /\ conflict_resolution = "first"
    /\ calculate_totals = FALSE
    /\ df_work = <<>>
    /\ grouped_data = <<>>
    /\ conflicts = <<>>
    /\ error = NoError
    /\ phase = "empty"
    /\ current_step = 1
    /\ df_original = NoTable
    /\ InitSending
    /\ smtp = NoCall

NextWizard ==
    \/ LoadSheets
    \/ Step1Next
    \/ ConfigureStep2
    \/ Step2Next
    \/ Step3Next
    \/ Step4Next
    \/ SidebarNext1
    \/ SidebarNext2
    \/ SidebarNext3
    \/ SidebarNext4
    \/ SidebarPrevTo2
    \/ SidebarPrev
    \/ Restart

SpecWizard == InitWizard /\ [][NextWizard]_vars

\* a session at step 2 with a sheet that holds the emails itself, for the
\* full send
SendRows ==
    {Row(Text(<<"A">>), EmailValid, Num(500)),
     Row(Text(<<"B">>), EmailValid, Num(500)),
     Row(Text(<<"B">>), EmailA, Num(500))}

InitSend ==
    /\ df \in ShortTables(SendRows)
    /\ InitSheet
    /\ amount_cols = <<"amount">>
    /\ percent_cols = <<>>
    /\ use_wildcard = TRUE
    /\ wildcard_suffixes = <<SfxTotal>>
    /\ conflict_resolution = "first"
    /\ calculate_totals = FALSE
    /\ InitOutputs

NextSend ==
    \/ Step2Next
    \/ Step3Next
    \/ Step4Next
    \/ ClickSend
    \/ CancelSend
    \/ StartSend
    \/ SendOne
    \/ EndSend

SpecSend == InitSend /\ [][NextSend]_vars

(***************************************************************************)
(* Notions the claims are stated with.                                     *)
(***************************************************************************)
Done == phase = "grouped"

RowIds == 1..Len(df)

\* a row's group key after normalization: string-cast, trimmed, one suffix
\* stripped when wildcard grouping is enabled
NormalizedKey(i) ==
    IF use_wildcard THEN get_base_key(df[i].key, wildcard_suffixes)
    ELSE Strip(PyStr(df[i].key))

\* the raw key of row i ends with a configured suffix
HasSuffix(i) ==
    \E j \in 1..Len(wildcard_suffixes) :
        EndsWith(PyStr(df[i].key), wildcard_suffixes[j])

RECURSIVE SumRowCount(_)
SumRowCount(K) ==
    IF K = {} THEN 0
    ELSE LET k == CHOOSE x \in K : TRUE
         IN  grouped_data[k].row_count + SumRowCount(K \ {k})

\* how often row i occurs in the rows of the returned groups
Occurrences(i) ==
    Cardinality({<<k, j>> \in
        UNION {{<<k2, j2>> : j2 \in 1..Len(grouped_data[k2].index)} :
                  k2 \in DOMAIN grouped_data} :
        grouped_data[k].index[j] = i})

RECURSIVE SumAmounts(_)
SumAmounts(I) ==
    IF I = {} THEN 0
    ELSE LET i == CHOOSE x \in I : TRUE
         IN  (IF IsNa(df[i].amount) THEN 0 ELSE df[i].amount.n)
             + SumAmounts(I \ {i})

\* the email cells of a record's rows, in the row order of the input table
RecordEmails(rec) ==
    LET asc == Ascending(Range(rec.index))
    IN  [j \in 1..Len(asc) |-> df[asc[j]].email]

\* the Email Resolver's normalization: every value trimmed, blank values
\* dropped, then the distinct values in first-seen order
TrimmedEmails(cells) ==
    LET kept == SelectSeq(DropNa(cells), KeepEmail)
    IN  [j \in 1..Len(kept) |-> Strip(PyStr(kept[j]))]

DistinctEmails(cells) == Unique(TrimmedEmails(cells))

\* the distinct email with the most occurrences, the first seen among ties
MostCommonEmail(cells) ==
    LET all == TrimmedEmails(cells)
        d   == DistinctEmails(cells)
        cnt(e) == Cardinality({j \in 1..Len(all) : all[j] = e})
        best == {j \in 1..Len(d) : \A l \in 1..Len(d) : cnt(d[j]) >= cnt(d[l])}
    IN  d[CHOOSE j \in best : \A l \in best : j <= l]

EntriesFor(k) == {j \in 1..Len(conflicts) : conflicts[j].group_key = k}

\* the positions of the suffix list whose suffix the string t ends with
Matching(t, suffixes) == {j \in 1..Len(suffixes) : EndsWith(t, suffixes[j])}

\* the Key Normalizer as stated: the trimmed string form of the cell, with
\* the first suffix of the list that it ends with cut off once and the rest
\* trimmed again; the trimmed string form when no suffix matches
ExpectedBaseKey(cell, suffixes) ==
    LET t == Strip(PyStr(cell))
        m == Matching(t, suffixes)
    IN  IF m = {} THEN t
        ELSE LET j == CHOOSE x \in m : \A y \in m : x <= y
             IN  Strip(SubSeq(t, 1, Len(t) - Len(suffixes[j])))

(***************************************************************************)
(* C1.  Partition completeness: the row_count of the returned groups sum   *)
(* to the number of rows whose normalized group key is not blank, and each *)
(* such row is in the groups exactly once.                                 *)
(***************************************************************************)
C1_PartitionCompleteness ==
    Done =>
        /\ SumRowCount(DOMAIN grouped_data)
             = Cardinality({i \in RowIds : ~IsBlankKey(NormalizedKey(i))})
        /\ \A i \in RowIds :
              ~IsBlankKey(NormalizedKey(i)) => Occurrences(i) = 1

(***************************************************************************)
(* C2.  Wildcard merge: with wildcard grouping enabled, rows whose keys    *)
(* normalize to the same non-blank base key are all in the one record      *)
(* stored under that base key, whose row_count counts each of them.        *)
(***************************************************************************)
C2_WildcardMerge ==
    (Done /\ use_wildcard) =>
        \A i \in RowIds :
            LET b == get_base_key(df[i].key, wildcard_suffixes)
                same == {j \in RowIds :
                           get_base_key(df[j].key, wildcard_suffixes) = b}
            IN  ~IsBlankKey(b) =>
                  /\ b \in DOMAIN grouped_data
                  /\ Range(grouped_data[b].index) = same
                  /\ grouped_data[b].row_count = Cardinality(same)
                  /\ \A k \in DOMAIN grouped_data \ {b} :
                        i \notin Range(grouped_data[k].index)

\* "Acme" and "Acme <suffix>" with the default suffix: one record, 2 rows
C2_Witness ==
    /\ Done /\ use_wildcard
    /\ wildcard_suffixes = <<SfxSpaceTotal>>
    /\ Len(df) = 2
    /\ df[1].key = Text(<<"A">>)
    /\ df[2].key = Text(<<"A", " ", "hap", "gye">>)
    /\ DOMAIN grouped_data = {<<"A">>}
    /\ grouped_data[<<"A">>].row_count = 2

(***************************************************************************)
(* C3.  Row ordering with wildcard grouping: in every record the data rows *)
(* precede the total rows and each class keeps the order of the input      *)
(* table.                                                                  *)
(***************************************************************************)
C3_RowOrdering ==
    (Done /\ use_wildcard) =>
        \A k \in DOMAIN grouped_data :
            LET rows == grouped_data[k].index
            IN  \A p, q \in 1..Len(rows) :
                  p < q =>
                    /\ ~(HasSuffix(rows[p]) /\ ~HasSuffix(rows[q]))
                    /\ (HasSuffix(rows[p]) = HasSuffix(rows[q])
                          => rows[p] < rows[q])

(***************************************************************************)
(* C4.  Total exclusion: with wildcard grouping and calculate_totals, the  *)
(* total of the amount column of a group is the formatted sum over the     *)
(* group's rows whose raw key does not end with a suffix.                  *)
(***************************************************************************)
C4_TotalExclusion ==
    (Done /\ use_wildcard /\ calculate_totals) =>
        \A k \in DOMAIN grouped_data :
            LET data == {i \in Range(grouped_data[k].index) : ~HasSuffix(i)}
            IN  /\ DOMAIN grouped_data[k].totals = {"amount"}
                /\ grouped_data[k].totals["amount"]
                     = FormatTotal(SumAmounts(data))

\* a group whose total row carries an amount that the total leaves out
C4_Witness ==
    /\ Done /\ use_wildcard /\ calculate_totals
    /\ \E k \in DOMAIN grouped_data :
          /\ \E i \in Range(grouped_data[k].index) :
                HasSuffix(i) /\ df[i].amount = Num(500)
          /\ \E i \in Range(grouped_data[k].index) :
                ~HasSuffix(i) /\ df[i].amount = Num(500)
          /\ grouped_data[k].totals["amount"] = <<"5", "0", "0">>

(***************************************************************************)
(* C5.  Policy 'skip': a group with two or more distinct non-blank emails  *)
(* has recipient_email None and has_conflict True, and its conflict entry  *)
(* has selected None.                                                      *)
(***************************************************************************)
C5_SkipPolicy ==
    (Done /\ conflict_resolution = "skip") =>
        \A k \in DOMAIN grouped_data :
            Len(DistinctEmails(RecordEmails(grouped_data[k]))) >= 2 =>
                /\ grouped_data[k].recipient_email = None
                /\ grouped_data[k].has_conflict
                /\ \A j \in EntriesFor(k) : conflicts[j].selected = None

(***************************************************************************)
(* C6.  Policy 'most_common': for a group with two or more distinct        *)
(* non-blank emails the recipient is the trimmed email with the most       *)
(* occurrences among the group's rows, the first seen among ties.          *)
(***************************************************************************)
C6_MostCommonPolicy ==
    (Done /\ conflict_resolution = "most_common") =>
        \A k \in DOMAIN grouped_data :
            LET cells == RecordEmails(grouped_data[k])
            IN  Len(DistinctEmails(cells)) >= 2 =>
                  grouped_data[k].recipient_email = Text(MostCommonEmail(cells))

(***************************************************************************)
(* C7.  Policy 'first': for a group with two or more distinct non-blank    *)
(* emails the recipient is the first distinct email in the row order of    *)
(* the input table, and has_conflict is True.                              *)
(***************************************************************************)
C7_FirstPolicy ==
    (Done /\ conflict_resolution = "first") =>
        \A k \in DOMAIN grouped_data :
            LET d == DistinctEmails(RecordEmails(grouped_data[k]))
            IN  Len(d) >= 2 =>
                  /\ grouped_data[k].recipient_email = Text(d[1])
                  /\ grouped_data[k].has_conflict

\* observed b, a, b; and a group whose total row, first in the table with
\* its own email, was moved behind the data row
C7_Witness ==
    /\ Done /\ conflict_resolution = "first" /\ use_wildcard
    /\ \E k \in DOMAIN grouped_data :
          LET rec == grouped_data[k]
          IN  /\ rec.has_conflict
              /\ rec.index[1] # 1
              /\ HasSuffix(1)
              /\ 1 \in Range(rec.index)
              /\ df[1].email = EmailB
              /\ rec.recipient_email = EmailB
              /\ DistinctEmails(RecordEmails(rec)) = <<<<"b">>, <<"a">>>>

(***************************************************************************)
(* C8.  has_conflict holds exactly when the group's trimmed non-blank      *)
(* emails contain more than one distinct address; conflict_emails is that  *)
(* duplicate-free list when has_conflict holds and empty otherwise.        *)
(***************************************************************************)
C8_HasConflict ==
    Done =>
        \A k \in DOMAIN grouped_data :
            LET d == DistinctEmails(RecordEmails(grouped_data[k]))
            IN  /\ grouped_data[k].has_conflict <=> Len(d) > 1
                /\ grouped_data[k].conflict_emails
                     = IF grouped_data[k].has_conflict THEN d ELSE <<>>

(***************************************************************************)
(* C9.  conflicts holds exactly one entry for each record with             *)
(* has_conflict True and none for any other group; the entry carries the   *)
(* record's key, its email list and its recipient_email as selected.       *)
(***************************************************************************)
C9_ConflictEntries ==
    Done =>
        /\ \A k \in DOMAIN grouped_data :
              grouped_data[k].has_conflict =>
                /\ Cardinality(EntriesFor(k)) = 1
                /\ \A j \in EntriesFor(k) :
                      /\ conflicts[j].emails = grouped_data[k].conflict_emails
                      /\ conflicts[j].selected = grouped_data[k].recipient_email
        /\ \A j \in 1..Len(conflicts) :
              /\ conflicts[j].group_key \in DOMAIN grouped_data
              /\ grouped_data[conflicts[j].group_key].has_conflict

(***************************************************************************)
(* C10.  No record for a blank key: no key of grouped_data is empty,       *)
(* whitespace-only or a blank sentinel in any letter case, and a row whose *)
(* normalized key is blank is in no group.                                 *)
(***************************************************************************)
C10_NoBlankKey ==
    Done =>
        /\ \A k \in DOMAIN grouped_data :
              /\ Strip(k) # <<>>
              /\ Lower(k) \notin BlankKeys
        /\ \A i \in RowIds :
              IsBlankKey(NormalizedKey(i)) => Occurrences(i) = 0

(***************************************************************************)
(* C11.  Key Normalizer: the base key of a cell is its trimmed string form *)
(* with the first suffix of the list that it ends with (compared exactly,  *)
(* letter case included) cut off once and the rest trimmed again, and the  *)
(* trimmed string form itself when no suffix matches; with wildcard        *)
(* grouping a row of non-blank base key is in the record of that key.      *)
(***************************************************************************)
C11_KeyNormalizer ==
    (Done /\ use_wildcard) =>
        \A i \in RowIds :
            LET b == ExpectedBaseKey(df[i].key, wildcard_suffixes)
            IN  /\ get_base_key(df[i].key, wildcard_suffixes) = b
                /\ ~IsBlankKey(b) =>
                      /\ b \in DOMAIN grouped_data
                      /\ i \in Range(grouped_data[b].index)

\* the list order decides ("Ahapgye" under [gye, hapgye] loses one code
\* point only), and a key with the suffix twice keeps one of them
C11_Witness ==
    /\ Done /\ use_wildcard
    /\ \/ /\ wildcard_suffixes = <<SfxGye, SfxTotal>>
          /\ \E i \in RowIds : df[i].key = Text(<<"A", "hap", "gye">>)
          /\ <<"A", "hap">> \in DOMAIN grouped_data
          /\ <<"A">> \notin DOMAIN grouped_data
       \/ /\ wildcard_suffixes = <<SfxSpaceTotal>>
          /\ \E i \in RowIds :
                df[i].key = Text(<<"A", " ", "hap", "gye", " ", "hap", "gye">>)
          /\ <<"A", " ", "hap", "gye">> \in DOMAIN grouped_data
    /\ \E i \in RowIds : df[i].key = Text(<<"A", "b">>)
    /\ <<"A", "b">> \in DOMAIN grouped_data

(***************************************************************************)
(* C12.  Suffix idempotence: a trimmed key that ends with none of the      *)
(* suffixes (a key cell's trimmed string, or a key get_base_key returned)  *)
(* is returned unchanged when it is normalized, whatever the suffix list,  *)
(* and is the key of the record its row is grouped under.                  *)
(***************************************************************************)
C12_SuffixIdempotence ==
    (Done /\ use_wildcard) =>
        /\ \A k \in DOMAIN grouped_data :
              Matching(k, wildcard_suffixes) = {} =>
                  get_base_key(Text(k), wildcard_suffixes) = k
        /\ \A i \in RowIds :
              LET t == Strip(PyStr(df[i].key))
              IN  Matching(t, wildcard_suffixes) = {} =>
                    /\ get_base_key(Text(t), wildcard_suffixes) = t
                    /\ ~IsBlankKey(t) =>
                          /\ t \in DOMAIN grouped_data
                          /\ i \in Range(grouped_data[t].index)

\* a key that lost its suffix, and a key that ends with the suffix in the
\* other letter case, are both normalized again to themselves
C12_Witness ==
    /\ Done /\ use_wildcard
    /\ \/ /\ wildcard_suffixes = <<SfxSpaceTotal>>
          /\ \E i \in RowIds : df[i].key = Text(<<"A", " ", "hap", "gye">>)
          /\ <<"A">> \in DOMAIN grouped_data
       \/ /\ wildcard_suffixes = <<SfxB>>
          /\ <<"A", "b">> \in DOMAIN grouped_data

(***************************************************************************)
(* C13.  With wildcard grouping disabled a row whose trimmed key string is *)
(* not blank is in the record stored under that trimmed string, so rows    *)
(* whose key cells differ only by surrounding whitespace share a record.   *)
(***************************************************************************)
C13_TrimmedKeyNoWildcard ==
    (Done /\ ~use_wildcard) =>
        \A i \in RowIds :
            LET t == Strip(PyStr(df[i].key))
            IN  ~IsBlankKey(t) =>
                  /\ t \in DOMAIN grouped_data
                  /\ i \in Range(grouped_data[t].index)

\* the configured amount column of the model's tables is listed
AmountListed == "amount" \in Range(amount_cols)

\* the rows of a record that its totals sum: with wildcard grouping the
\* rows whose raw key ends with no suffix, without it all rows
DataRowsOf(rec) ==
    IF use_wildcard THEN {i \in Range(rec.index) : ~HasSuffix(i)}
    ELSE Range(rec.index)

\* s spells the non-zero integer n in decimal with "," between groups of
\* three digits and no other character
IsThousandsString(s, n) ==
    LET body == IF s # <<>> /\ Head(s) = "-" THEN Tail(s) ELSE s
        len  == Len(body)
    IN  /\ len > 0
        /\ \A q \in 1..len :
              IF (len - q + 1) % 4 = 0 THEN body[q] = ","
              ELSE body[q] \in {"0", "1", "2", "3", "4", "5", "6", "7", "8", "9"}
        /\ body[1] \notin {"0", ","}
        /\ (s # <<>> /\ Head(s) = "-") <=> n < 0
        /\ DigitsValue(RemoveChar(body, ","))
             = IF n < 0 THEN 0 - n ELSE n

\* the text of a loaded cell is no number once ',' and the currency marks
\* are taken out and the rest is trimmed
Unparseable(cell) ==
    /\ cell.t = "str"
    /\ LET t == Strip(RemoveChar(RemoveChar(RemoveChar(cell.s, ","), "krw"),
                                 "won"))
       IN  ~(IsDigits(t) \/ (t # <<>> /\ Head(t) = "-" /\ IsDigits(Tail(t))))

(***************************************************************************)
(* C14.  Zero-as-blank: a row whose amount is numeric 0 is in its group    *)
(* once, counted by row_count, with the empty string for the amount column *)
(* in rows; the group's amount total is the formatted sum of the numeric   *)
(* values of the rows it sums, the 0 adding 0.                             *)
(***************************************************************************)
C14_ZeroAsBlank ==
    (Done /\ AmountListed) =>
        /\ \A i \in RowIds : df[i]["amount"] = Num(0) => Occurrences(i) = 1
        /\ \A k \in DOMAIN grouped_data :
              LET rec == grouped_data[k]
              IN  /\ rec.row_count = Len(rec.index)
                  /\ Len(rec.rows) = Len(rec.index)
                  /\ \A j \in 1..Len(rec.index) :
                        df[rec.index[j]]["amount"] = Num(0)
                            => rec.rows[j]["amount"] = <<>>
                  /\ calculate_totals =>
                        rec.totals["amount"]
                            = FormatTotal(SumAmounts(DataRowsOf(rec)))

\* a group of a 0 row and a 100000 row: two rows, the first one blank,
\* total 100,000
C14_Witness ==
    /\ Done /\ AmountListed /\ calculate_totals
    /\ \E k \in DOMAIN grouped_data :
          LET rec == grouped_data[k]
          IN  /\ rec.row_count = 2
              /\ df_work[rec.index[1]]["amount"] = Num(0)
              /\ rec.rows[1]["amount"] = <<>>
              /\ rec.rows[2]["amount"] = <<"1", "0", "0", "0", "0", "0">>
              /\ rec.totals["amount"] = <<"1", "0", "0", ",", "0", "0", "0">>

(***************************************************************************)
(* C15.  totals of every record is the empty mapping when calculate_totals *)
(* is off; when it is on its keys are the names of amount_cols that are    *)
(* columns of the table, and each value is the empty string for a zero sum *)
(* and the sum as a thousands-separated integer otherwise.                 *)
(***************************************************************************)
C15_TotalsMapping ==
    Done =>
        \A k \in DOMAIN grouped_data :
            LET rec == grouped_data[k]
            IN  /\ ~calculate_totals => rec.totals = <<>>
                /\ calculate_totals =>
                      /\ DOMAIN rec.totals
                           = {c \in Range(amount_cols) : c \in columns}
                      /\ \A c \in DOMAIN rec.totals :
                            LET sum == SumAmounts(DataRowsOf(rec))
                            IN  /\ c = "amount"
                                /\ sum = 0 => rec.totals[c] = <<>>
                                /\ sum # 0 =>
                                      IsThousandsString(rec.totals[c], sum)

\* amount_cols names amount and the missing bonus; the total of 100000 and
\* '1,000' is its only entry
C15_Witness ==
    /\ Done /\ calculate_totals
    /\ amount_cols = <<"amount", "bonus">>
    /\ \E k \in DOMAIN grouped_data :
          /\ DOMAIN grouped_data[k].totals = {"amount"}
          /\ grouped_data[k].totals["amount"]
               = <<"1", "0", "1", ",", "0", "0", "0">>

(***************************************************************************)
(* C16.  Row rendering of amount columns, as stated: the display string of *)
(* a configured amount column is the empty string for a zero or missing    *)
(* value and the number with thousands separators and no symbol otherwise. *)
(***************************************************************************)
C16_CurrencyRows ==
    (Done /\ AmountListed) =>
        \A k \in DOMAIN grouped_data :
            LET rec == grouped_data[k]
            IN  \A j \in 1..Len(rec.index) :
                  LET v == df[rec.index[j]]["amount"]
                  IN  IF IsNa(v) \/ v.n = 0
                      THEN rec.rows[j]["amount"] = <<>>
                      ELSE IsThousandsString(rec.rows[j]["amount"], v.n)

(***************************************************************************)
(* C16, amended.  The display string of a configured amount column is the  *)
(* empty string for a zero or missing value; otherwise it is the trimmed   *)
(* text the cell has in the workbook when the table carries the original   *)
(* texts, and the plain decimal digits of the number when it does not.     *)
(***************************************************************************)
C16_OriginalTextRows ==
    (Done /\ AmountListed) =>
        \A k \in DOMAIN grouped_data :
            LET rec == grouped_data[k]
            IN  \A j \in 1..Len(rec.index) :
                  LET i == rec.index[j]
                      v == df[i]["amount"]
                  IN  IF IsNa(v) \/ v.n = 0
                      THEN rec.rows[j]["amount"] = <<>>
                      ELSE IF original_str.present
                           THEN rec.rows[j]["amount"]
                                  = Strip(PyStr(df_work[i]["amount"]))
                           ELSE rec.rows[j]["amount"] = IntStr(v.n)

\* the number 100000 shown as 100000, the text '1,000' as it is, and
\* '500' with the currency mark it has in the workbook as it is
C16_Witness ==
    /\ Done /\ AmountListed /\ original_str.present
    /\ \E k \in DOMAIN grouped_data :
          LET rec == grouped_data[k]
          IN  /\ Len(rec.rows) = 3
              /\ \E j \in 1..3 :
                    /\ df[rec.index[j]]["amount"] = Num(100000)
                    /\ rec.rows[j]["amount"] = <<"1", "0", "0", "0", "0", "0">>
              /\ \E j \in 1..3 :
                    /\ df[rec.index[j]]["amount"] = Num(1000)
                    /\ rec.rows[j]["amount"] = <<"1", ",", "0", "0", "0">>
              /\ \E j \in 1..3 :
                    /\ df[rec.index[j]]["amount"] = Num(500)
                    /\ rec.rows[j]["amount"] = <<"5", "0", "0", "won">>

(***************************************************************************)
(* C19.  Unparseable numeric cell: the run of a table whose amount column  *)
(* holds a text that is no number ends without error; the cell is missing  *)
(* in the cleaned table, its row is rendered with the empty string for the *)
(* column, and the group's total is the sum of the other cells.            *)
(***************************************************************************)
C19_UnparseableCell ==
    (phase # "loaded" /\ AmountListed) =>
        /\ phase = "grouped"
        /\ error = NoError
        /\ \A i \in 1..Len(df_work) :
              Unparseable(df_work[i]["amount"]) =>
                  /\ df[i]["amount"] = NaN
                  /\ Occurrences(i) = 1
        /\ \A k \in DOMAIN grouped_data :
              LET rec == grouped_data[k]
                  bad == {i \in Range(rec.index) :
                             Unparseable(df_work[i]["amount"])}
              IN  /\ \A j \in 1..Len(rec.index) :
                        rec.index[j] \in bad => rec.rows[j]["amount"] = <<>>
                  /\ calculate_totals =>
                        rec.totals["amount"]
                            = FormatTotal(SumAmounts(DataRowsOf(rec) \ bad))

\* 'N/A' next to '1,000': two rows, the first one blank, total 1,000
C19_Witness ==
    /\ Done /\ AmountListed /\ calculate_totals
    /\ \E k \in DOMAIN grouped_data :
          LET rec == grouped_data[k]
          IN  /\ rec.row_count = 2
              /\ df_work[rec.index[1]]["amount"] = Text(<<"N", "/", "A">>)
              /\ rec.rows[1]["amount"] = <<>>
              /\ rec.rows[2]["amount"] = <<"1", ",", "0", "0", "0">>
              /\ rec.totals["amount"] = <<"1", ",", "0", "0", "0">>

\* the step from the loaded table to the end of the run
Run == phase = "loaded" /\ phase' # "loaded"

\* the column of the merged table that holds the email sheet's addresses
LookupEmailColumn == IF "email" \in columns THEN "email_y" ELSE "email"

\* the rows of the email sheet whose stripped join key is that of row i
LookupHits(i) ==
    {j \in 1..Len(df_email.rows) :
        JoinKey(df_email.rows[j].jkey) = JoinKey(df[i]["key"])}

(***************************************************************************)
(* C17.  merge_email_data is a left join that keeps the primary table: the *)
(* merged table has the rows of the primary table, as many and in the same *)
(* order, each with the email of the first email-sheet row of its join key *)
(* and with a missing email when no row has that key.                      *)
(***************************************************************************)
C17_MergeKeepsRows ==
    [][(Run /\ Merging) =>
         /\ Len(df_work') = Len(df)
         /\ \A i \in 1..Len(df) :
               /\ \A c \in columns \ {"email"} : df_work'[i][c] = df[i][c]
               /\ "email" \in columns => df_work'[i]["email_x"] = df[i]["email"]
               /\ df_work'[i][LookupEmailColumn]
                    = IF LookupHits(i) = {} THEN NaN
                      ELSE LET j == CHOOSE x \in LookupHits(i) :
                                       \A y \in LookupHits(i) : x <= y
                           IN  df_email.rows[j].email]_vars

\* an email sheet with 'A' (b) and 'A ' (a), and a primary table with an
\* empty key, A and ' A': three rows in that order, the first without an
\* email, both A with b
C17_Witness ==
    /\ Done /\ Merging
    /\ df_email.rows = <<LookupRow(Text(<<"A">>), EmailB),
                         LookupRow(Text(<<"A", " ">>), EmailA)>>
    /\ Len(df_work) = 3
    /\ df_work[1]["key"] = NaN /\ df_work[1]["email"] = NaN
    /\ df_work[2]["key"] = Text(<<"A">>) /\ df_work[2]["email"] = EmailB
    /\ df_work[3]["key"] = Text(<<" ", "A">>) /\ df_work[3]["email"] = EmailB

(***************************************************************************)
(* C18.  clean_dataframe returns a table with the rows of its input in     *)
(* which every cell of a column that is in neither amount_cols nor         *)
(* percent_cols is the cell of the input, and leaves its input as it was.  *)
(***************************************************************************)
C18_CleanFrame ==
    [][Run =>
         /\ Len(df') = Len(df_work')
         /\ \A i \in 1..Len(df') :
               /\ DOMAIN df'[i] = DOMAIN df_work'[i]
               /\ \A c \in DOMAIN df'[i] :
                     (c \notin Range(amount_cols) /\ c \notin Range(percent_cols))
                         => df'[i][c] = df_work'[i][c]
         /\ ~Merging => df_work' = df]_vars

\* amount is listed and converted, the key ' A' beside it is as it was
C18_Witness ==
    /\ phase # "loaded"
    /\ amount_cols = <<"amount">> /\ percent_cols = <<>>
    /\ \E i \in 1..Len(df) :
          /\ df_work[i]["amount"] = Text(<<"1", ",", "0", "0", "0">>)
          /\ df[i]["amount"] = Num(1000)
          /\ df_work[i]["key"] = Text(<<" ", "A">>)
          /\ df[i]["key"] = Text(<<" ", "A">>)

\* the configured column names that are no column of the table
MissingColumns ==
    {c \in {group_key_col} \cup Range(amount_cols) : c \notin columns}

C28_RecipientIsNormalized ==
    Done =>
        \A k \in DOMAIN grouped_data :
            LET rec == grouped_data[k]
            IN  \/ rec.recipient_email = None
                \/ /\ rec.recipient_email.t = "str"
                   /\ rec.recipient_email.s
                        \in Range(DistinctEmails(RecordEmails(rec)))

\* get_base_key cut a suffix off the key of row i
SuffixStripped(i) ==
    get_base_key(df[i].key, wildcard_suffixes) # Strip(PyStr(df[i].key))

(***************************************************************************)
(* C29.  With wildcard grouping the rows treated as total rows are the     *)
(* rows whose key get_base_key stripped a suffix from: in every record no  *)
(* row with a stripped key stands before a row with an unstripped key, a   *)
(* key with whitespace after the suffix included.                          *)
(***************************************************************************)
C29_TotalRowIffStripped ==
    (Done /\ use_wildcard) =>
        \A k \in DOMAIN grouped_data :
            LET rows == grouped_data[k].index
            IN  \A p, q \in 1..Len(rows) :
                  p < q => ~(SuffixStripped(rows[p]) /\ ~SuffixStripped(rows[q]))

(***************************************************************************)
(* C26.  sanity_check, given the grouped_data of a run, has a zero_amount  *)
(* warning for every group and amount column whose computed total is zero. *)
(***************************************************************************)
C26_ZeroAmountWarning ==
    (Done /\ calculate_totals) =>
        \A k \in DOMAIN grouped_data :
            \A c \in DOMAIN grouped_data[k].totals :
                grouped_data[k].totals[c] = FormatTotal(0) =>
                    [group |-> k, type |-> "zero_amount", col |-> c]
                        \in sanity_check(grouped_data)

\* the failures the claim calls transient, and those it calls permanent
ClaimedTransient(e) ==
    \/ e.kind = "SMTPAuthenticationError"
          /\ (e.code = 454 \/ "Temporary" \in e.words)
    \/ e.kind = "timeout"
    \/ e.kind \in {"SSLError", "Exception"} /\ "handshake" \in e.words
    \/ e.kind = "Exception" /\ "ssl" \in e.words

ClaimedPermanent(e) ==
    \/ e.kind = "SMTPAuthenticationError" /\ e.code \in {535, 553}
          /\ "Temporary" \notin e.words
    \/ e.kind \in {"gaierror", "ConnectionRefusedError"}

(***************************************************************************)
(* C24.  create_smtp_connection makes at most max_retries attempts; an     *)
(* attempt is followed by another one only when it failed with a transient *)
(* failure (454 or temporary authentication error, socket timeout, SSL     *)
(* handshake error), never after a success or a permanent failure (535,    *)
(* 553, unknown host, connection refused); and what it returns is          *)
(* (server, None) or (None, message).                                      *)
(***************************************************************************)
C24_RetryOnlyTransient ==
    /\ Len(smtp.tried) <= max_retries
    /\ \A j \in 1..Len(smtp.tried) :
          (j < Len(smtp.tried) \/ smtp.pc = "loop") =>
              /\ smtp.tried[j] # Connected
              /\ ClaimedTransient(smtp.tried[j])
              /\ ~ClaimedPermanent(smtp.tried[j])
    /\ smtp.pc = "returned" =>
          \/ smtp.result = Returned("server", "None")
          \/ smtp.result[1] = "None" /\ smtp.result[2] # "None"

(***************************************************************************)
(* The full send.                                                          *)
(***************************************************************************)
\* the places of the results a run holds for group gk with a given status
ResultsOf(run, gk, status) ==
    {j \in 1..Len(run.results) :
        run.results[j].group = gk /\ run.results[j].status = status}

\* no send_email of the run came back with an error of the server
ServerAcceptedAll(run) ==
    \A j \in 1..Len(run.results) : run.results[j].reason # "error"

\* C30: a full send that ends without emergency stop, on a connection whose
\* server refused no message, leaves every valid group that was not sent
\* before with exactly one result of status success and in sent_groups.
C30_EveryValidGroupSucceeds ==
    [][(/\ send_run.pc = "finish"
        /\ send_run'.pc = "idle"
        /\ ~emergency_stop
        /\ ServerAcceptedAll(send_run))
       => \A gk \in Range(send_run.order) :
             \/ ResultsOf(send_run, gk, "skipped") # {}
             \/ /\ Cardinality(ResultsOf(send_run, gk, "success")) = 1
                /\ gk \in sent_groups']_vars

C27_WizardInvariant ==
    /\ [](/\ current_step \in 1..5
          /\ current_step \in {4, 5}
                => /\ df # NoTable
                   /\ valid_groups(grouped_data) # {})
    /\ [][/\ current_step' > current_step => current_step' = current_step + 1
          /\ (current_step = 3 /\ current_step' = 4)
                => valid_groups(grouped_data) # {}]_vars

\* step 5 is reached with a group that can be mailed and one that cannot
C27_Witness ==
    /\ current_step = 5
    /\ valid_groups(grouped_data) # {}
    /\ DOMAIN grouped_data # valid_groups(grouped_data)

\* what the processing of a step 2 button can store as (grouped_data,
\* conflicts) for the table d with the columns cols and the attribute orig,
\* under the settings of the session and dc as display_cols
ProcessingOutcomes(d, cols, orig, dc) ==
    LET merged  == IF Merging THEN merge_email_data(d, df_email.rows) ELSE d
        mcols   == IF Merging THEN MergedColumns(cols) ELSE cols
        cleaned == clean_dataframe(merged, amount_cols, percent_cols)
    IN  IF ColumnMissing(group_key_col, mcols) THEN {}
        ELSE UNION {GroupDataResults(cleaned,
                        Config(use_wildcard, wildcard_suffixes,
                               conflict_resolution, calculate_totals,
                               amount_cols, dc, mcols, a)) :
                    a \in (IF Merging THEN {orig, NoOriginalStr} ELSE {orig})}

\* C25: what a move from step 2 to step 3 stores as grouped_data and
\* email_conflicts is what the sidebar's next stores from that state and
\* what the body's next button stores from it.
C25_SidebarEqualsBody ==
    [][(current_step = 2 /\ current_step' = 3)
       => LET out == [g |-> grouped_data', c |-> conflicts']
          IN  /\ out \in ProcessingOutcomes(df, columns, original_str,
                                            display_cols)
              /\ out \in ProcessingOutcomes(df, columns, original_str,
                                            ColumnList(columns))]_vars

\* C21: a move from step 2 to step 3 that follows an earlier processing of
\* the same upload stores what the processing of the upload itself stores,
\* under the settings of the session and the display columns of either
\* button.
C21_RerunIsFresh ==
    [][(current_step = 2 /\ current_step' = 3 /\ phase = "grouped")
       => \E dc \in {display_cols, ColumnList(columns)} :
             [g |-> grouped_data', c |-> conflicts']
                \in ProcessingOutcomes(df_original, DOMAIN df_original[1],
                                       OriginalStr(df_original), dc)]_vars
====
